---- MODULE Spec2Model ----
(***************************************************************************)
(* A model of the musicbox appliance: the catalog store                    *)
(* (src/src/core/mapping_manager.py), the playback controller              *)
(* (src/src/core/audio_player.py) and the dispatch policy                  *)
(* (src/src/main.py, MusicBox.handle_tag and the body of MusicBox.run).    *)
(*                                                                         *)
(* Paths are sequences of path segments; an absolute path carries          *)
(* abs = TRUE.  The music root is the single directory MusicDir and the    *)
(* directory tree under it is flat: `disk` is the set of entry names       *)
(* present in the music root.                                              *)
(***************************************************************************)
EXTENDS Integers, Sequences, FiniteSets, TLC

\* ------------------------------------------------------------------ bounds

\* Stored positions range over 0, 1000, ..., MaxPosK * 1000 (milliseconds).
MaxPosK == 1

\* The dispatch history `taps` records at most MaxTaps main-loop iterations.
MaxTaps == 3

\* ------------------------------------------------------- values and inputs

None == "None"

Tags == {"TAG_1", "TAG_2"}

\* Stand-ins for long file names: a name of 255 characters ending in ".mp3",
\* a name of 300 characters, and a dot followed by 300 characters.
Name255 == "<255 characters>.mp3"
Name300 == "<300 characters>.mp3"
DotName301 == ".<300 characters>"

\* Entries that may exist in the music root.  "album.mp3" is a directory,
\* the others are regular files.
DiskNames == {"a.mp3", "b.mp3", "album.mp3", ".hidden.mp3", "notes.txt", Name255}

\* Entries that stay in the music root, and entries that come and go.
FixedNames == {"b.mp3", "album.mp3", ".hidden.mp3", "notes.txt", Name255}
VariableNames == DiskNames \ FixedNames

is_dir(name) == name = "album.mp3"

\* Path.suffix.lower() of an entry name.
suffix_lower(name) == IF name = "notes.txt" THEN ".txt" ELSE ".mp3"

\* name.startswith('.')
startswith_dot(name) == name \in {".hidden.mp3", DotName301}

\* len(name)
strlen(name) ==
    CASE name = "" -> 0
      [] name = Name255 -> 255
      [] name = Name300 -> 300
      [] name = DotName301 -> 301
      [] name \in {"a.mp3", "b.mp3"} -> 5
      [] name \in {"album.mp3", "notes.txt", "dir/a.mp3"} -> 9
      [] OTHER -> 11

\* Path(name).name
path_name(name) == IF name = "dir/a.mp3" THEN "a.mp3" ELSE name

\* Media length of an audio file in milliseconds (what get_length() reports
\* once the file is loaded).
Duration(name) == IF name = "a.mp3" THEN 4000 ELSE 9000

AUDIO_EXTENSIONS == {".mp3", ".wav", ".flac", ".ogg"}

MusicDir == <<"music">>

Positions == {k * 1000 : k \in 0..MaxPosK}

\* A path value: py is the Python type that carries it ("Path" or "str").
Rel(segs) == [py |-> "Path", abs |-> FALSE, segs |-> segs]
Abs(segs) == [py |-> "Path", abs |-> TRUE, segs |-> segs]

\* None where a path is expected, and None where an engine handle is expected.
NoPath == [py |-> "None", abs |-> FALSE, segs |-> <<>>]
NoPlayer == [state |-> "None", time |-> 0, length |-> 0, media |-> NoPath]

\* str(path)
str(path) == [path EXCEPT !.py = "str"]

\* Paths handed to add_mapping by callers.
PathInputs ==
    { Rel(<<"a.mp3">>), Rel(<<"b.mp3">>), Rel(<<"..", "a.mp3">>),
      Abs(<<"music", "a.mp3">>),
      Abs(<<"music", "..", "music", "a.mp3">>),
      Abs(<<"music", "..", "etc", "a.mp3">>) }

\* Paths handed to add_mapping by POST /map while a scan is running.
CatalogPathInputs == { Rel(<<"a.mp3">>), Rel(<<"b.mp3">>) }

\* Paths handed to update_position by callers.
PositionPathInputs == { Abs(<<"music", "a.mp3">>), Rel(<<"..", "a.mp3">>) }

\* ---------------------------------------------------------------- helpers

EmptyDict == [k \in {} |-> None]

Restrict(f, S) == [k \in (DOMAIN f) \cap S |-> f[k]]

Put(f, k, v) == [x \in (DOMAIN f) \cup {k} |-> IF x = k THEN v ELSE f[x]]

IsPrefix(p, s) == Len(p) <= Len(s) /\ SubSeq(s, 1, Len(p)) = p

\* pathlib drops "." segments when a path is built.
RECURSIVE pure_parts(_)
pure_parts(segs) ==
    IF segs = <<>> THEN <<>>
    ELSE IF Head(segs) = "." THEN pure_parts(Tail(segs))
    ELSE <<Head(segs)>> \o pure_parts(Tail(segs))

\* Path.resolve() on an absolute path: ".." steps up (never above the root).
RECURSIVE resolve_from(_, _)
resolve_from(acc, segs) ==
    IF segs = <<>> THEN acc
    ELSE IF Head(segs) = "."
         THEN resolve_from(acc, Tail(segs))
    ELSE IF Head(segs) = ".."
         THEN resolve_from(IF acc = <<>> THEN <<>> ELSE SubSeq(acc, 1, Len(acc) - 1),
                           Tail(segs))
    ELSE resolve_from(Append(acc, Head(segs)), Tail(segs))

resolve(segs) == resolve_from(<<>>, segs)

\* ------------------------------------------------------------------ state

VARIABLES
    disk,                 \* entry names present in the music root
    mapping_file,         \* content of the database file on disk
    files,                \* MappingManager.files: relative path -> record
    mappings,             \* MappingManager.mappings: tag -> relative path
    database_changed,     \* MappingManager._database_changed
    save_database_timer,  \* MappingManager._save_database_timer
    pending_timers,       \* the Timer threads started and neither finished nor cancelled
    current_player,       \* AudioPlayer._current_player (None or an engine handle)
    is_playing,           \* AudioPlayer._is_playing
    metadata,             \* AudioPlayer._metadata
    current_file,         \* AudioPlayer._current_file
    current_playing_tag,  \* MusicBox._current_playing_tag
    track_end_logged,     \* local of MusicBox.run (True when the loop starts)
    last_op,              \* history: the operation that ran last, and its result
    taps,                 \* history: main-loop iterations since construction
    saving,               \* _save_database_to_disk calls under way, and temp_file
    teardown,             \* MusicBox._shutdown_requested and the run of MusicBox.cleanup
    poller,               \* the RFID polling thread's fields, the clock and _tag_queue
    in_flight,            \* locals of the operations that a second thread is in the middle of
    downloader            \* the SpotifyDownloader: its fields, its worker thread and its callers

catalog_vars == <<files, mappings, database_changed, save_database_timer, pending_timers,
                  mapping_file>>
player_vars == <<current_player, is_playing, metadata, current_file>>
vars == <<disk, mapping_file, files, mappings, database_changed, save_database_timer,
          pending_timers,
          current_player, is_playing, metadata, current_file,
          current_playing_tag, track_end_logged, last_op, taps, saving, teardown, poller, in_flight, downloader>>

\* The catalog store as one record.
Cat == [files |-> files, mappings |-> mappings,
        database_changed |-> database_changed,
        save_database_timer |-> save_database_timer,
        pending_timers |-> pending_timers,
        mapping_file |-> mapping_file]

SetCat(C) ==
    /\ files' = C.files
    /\ mappings' = C.mappings
    /\ database_changed' = C.database_changed
    /\ save_database_timer' = C.save_database_timer
    /\ pending_timers' = C.pending_timers
    /\ mapping_file' = C.mapping_file

\* ---------------------------------------------------------- catalog store

\* json.dump / json.load of a dict: the document holds the dict's members.
json_dump(d) == {<<k, d[k]>> : k \in DOMAIN d}

json_load(members) ==
    [k \in {m[1] : m \in members} |-> (CHOOSE m \in members : m[1] = k)[2]]

MissingFile == [kind |-> "missing", files |-> {}, mappings |-> {}]
CorruptFile == [kind |-> "corrupt", files |-> {}, mappings |-> {}]

to_absolute_path(relative_path) == Abs(resolve(MusicDir \o relative_path))

\* [ok, rel]: ok = FALSE stands for the ValueError.
to_relative_path(path) ==
    LET parts == pure_parts(path.segs)
        full == IF path.abs THEN parts ELSE resolve(MusicDir \o parts)
    IN IF IsPrefix(MusicDir, full)
       THEN [ok |-> TRUE, rel |-> SubSeq(full, Len(MusicDir) + 1, Len(full))]
       ELSE [ok |-> FALSE, rel |-> <<>>]

\* Variant of mark_database_changed: a new timer is started on every call.
mark_database_changed_new_timer(C) ==
    [C EXCEPT !.database_changed = TRUE,
              !.save_database_timer = "alive",
              !.pending_timers = @ + 1]

\* The deferred-flush timer is None, "alive" (started and neither fired nor
\* cancelled) or "dead" (it ran, or was cancelled).
mark_database_changed(C) ==
    [C EXCEPT !.database_changed = TRUE,
              !.save_database_timer =
                  IF C.save_database_timer = None \/ C.save_database_timer # "alive"
                  THEN "alive"
                  ELSE C.save_database_timer,
              !.pending_timers =
                  IF C.save_database_timer = None \/ C.save_database_timer # "alive"
                  THEN @ + 1
                  ELSE @]

\* _save_database_to_disk: io_ok = FALSE stands for an I/O error while the
\* temporary file is written or renamed.  Returns [C, ret].
save_database_to_disk(C, force_save, io_ok) ==
    LET C1 == IF C.save_database_timer = "alive"
              THEN [C EXCEPT !.save_database_timer = "dead", !.pending_timers = @ - 1]
              ELSE C
    IN IF ~C1.database_changed /\ ~force_save
       THEN [C |-> C1, ret |-> TRUE]
       ELSE IF io_ok
            THEN [C |-> [C1 EXCEPT
                           !.mapping_file = [kind |-> "doc",
                                             files |-> json_dump(C1.files),
                                             mappings |-> json_dump(C1.mappings)],
                           !.database_changed = FALSE],
                  ret |-> TRUE]
            ELSE [C |-> C1, ret |-> FALSE]

\* Variant of load_database: a file that does not parse is left as it is.
load_database_no_overwrite(C, io_ok) ==
    IF C.mapping_file.kind = "missing"
    THEN save_database_to_disk(C, TRUE, io_ok).C
    ELSE IF C.mapping_file.kind = "doc"
         THEN [C EXCEPT !.files = json_load(C.mapping_file.files),
                        !.mappings = json_load(C.mapping_file.mappings),
                        !.database_changed = FALSE]
         ELSE [C EXCEPT !.files = EmptyDict, !.mappings = EmptyDict]

load_database(C, io_ok) ==
    IF C.mapping_file.kind = "missing"
    THEN save_database_to_disk(C, TRUE, io_ok).C
    ELSE IF C.mapping_file.kind = "doc"
         THEN [C EXCEPT !.files = json_load(C.mapping_file.files),
                        !.mappings = json_load(C.mapping_file.mappings),
                        !.database_changed = FALSE]
         ELSE save_database_to_disk(
                  [C EXCEPT !.files = EmptyDict, !.mappings = EmptyDict], TRUE, io_ok).C

\* _extract_metadata plus the record built around it for a new file.
new_file_record(name) == [last_position |-> 0]

\* The relative paths rglob('*') yields that pass the filter of scan_directory.
current_files(dsk) ==
    { <<n>> : n \in { e \in dsk : suffix_lower(e) \in AUDIO_EXTENSIONS
                                   /\ ~startswith_dot(e) } }

\* Variant of scan_directory: the error is raised after the records of
\* vanished files were dropped.
scan_directory_fails_late(C, dsk, io_ok) ==
    LET cur == current_files(dsk)
        kept == Restrict(C.files, cur)
        fs == [p \in cur |-> IF p \in DOMAIN kept THEN kept[p]
                             ELSE new_file_record(p[1])]
        ms == Restrict(C.mappings, {t \in DOMAIN C.mappings : C.mappings[t] \in DOMAIN fs})
    IN IF ~io_ok
       THEN [C |-> [C EXCEPT !.files = kept], ret |-> FALSE]
       ELSE [C |-> mark_database_changed([C EXCEPT !.files = fs, !.mappings = ms]),
             ret |-> TRUE]

\* Variant of scan_directory: every record is built anew.
scan_directory_fresh_records(C, dsk, io_ok) ==
    IF ~io_ok
    THEN [C |-> C, ret |-> FALSE]
    ELSE LET cur == current_files(dsk)
             fs == [p \in cur |-> new_file_record(p[1])]
             ms == Restrict(C.mappings, {t \in DOMAIN C.mappings : C.mappings[t] \in DOMAIN fs})
         IN [C |-> mark_database_changed([C EXCEPT !.files = fs, !.mappings = ms]),
             ret |-> TRUE]

\* Variant of scan_directory: mappings of vanished files are not purged.
scan_directory_keeps_mappings(C, dsk, io_ok) ==
    IF ~io_ok
    THEN [C |-> C, ret |-> FALSE]
    ELSE LET cur == current_files(dsk)
             kept == Restrict(C.files, cur)
             fs == [p \in cur |-> IF p \in DOMAIN kept THEN kept[p]
                                  ELSE new_file_record(p[1])]
         IN [C |-> mark_database_changed([C EXCEPT !.files = fs]), ret |-> TRUE]

\* io_ok = FALSE stands for an error raised while the tree is walked.
\* Returns [C, ret].
scan_directory(C, dsk, io_ok) ==
    IF ~io_ok
    THEN [C |-> C, ret |-> FALSE]
    ELSE LET cur == current_files(dsk)
             kept == Restrict(C.files, cur)
             fs == [p \in cur |-> IF p \in DOMAIN kept THEN kept[p]
                                  ELSE new_file_record(p[1])]
             ms == Restrict(C.mappings, {t \in DOMAIN C.mappings : C.mappings[t] \in DOMAIN fs})
         IN [C |-> mark_database_changed([C EXCEPT !.files = fs, !.mappings = ms]),
             ret |-> TRUE]

\* Returns [C, ret].
add_mapping(C, dsk, rfid_tag, file_path, scan_ok) ==
    LET r == to_relative_path(file_path)
        C1 == IF r.rel \notin DOMAIN C.files
              THEN scan_directory(C, dsk, scan_ok).C
              ELSE C
    IN IF ~r.ok
       THEN [C |-> C, ret |-> FALSE]
       ELSE IF r.rel \in DOMAIN C1.files
            THEN [C |-> mark_database_changed(
                            [C1 EXCEPT !.mappings = Put(C1.mappings, rfid_tag, r.rel)]),
                  ret |-> TRUE]
            ELSE [C |-> C1, ret |-> FALSE]

\* Variant of remove_mapping: the entry is deleted from a copy of the dict.
remove_mapping_on_copy(C, rfid_tag) ==
    IF rfid_tag \in DOMAIN C.mappings
    THEN [C |-> mark_database_changed(C), ret |-> TRUE]
    ELSE [C |-> C, ret |-> FALSE]

\* Returns [C, ret].
remove_mapping(C, rfid_tag) ==
    IF rfid_tag \in DOMAIN C.mappings
    THEN [C |-> mark_database_changed(
                    [C EXCEPT !.mappings =
                         Restrict(C.mappings, (DOMAIN C.mappings) \ {rfid_tag})]),
          ret |-> TRUE]
    ELSE [C |-> C, ret |-> FALSE]

\* Variant of get_mapped_file: the stored relative path is returned as it is.
get_mapped_file_relative(C, rfid_tag) ==
    IF rfid_tag \in DOMAIN C.mappings
    THEN Rel(C.mappings[rfid_tag])
    ELSE NoPath

\* NoPath (None) when the tag is unmapped.
get_mapped_file(C, rfid_tag) ==
    IF rfid_tag \in DOMAIN C.mappings
    THEN to_absolute_path(C.mappings[rfid_tag])
    ELSE NoPath

update_position(C, file_path, position_ms) ==
    LET r == to_relative_path(file_path)
    IN IF r.ok /\ r.rel \in DOMAIN C.files
       THEN mark_database_changed(
                [C EXCEPT !.files = [C.files EXCEPT ![r.rel].last_position = position_ms]])
       ELSE C

\* MappingManager.cleanup: cancel a pending timer, then a forced save.
mapping_manager_cleanup(C, io_ok) ==
    LET C1 == IF C.save_database_timer = "alive"
              THEN [C EXCEPT !.save_database_timer = None, !.pending_timers = @ - 1]
              ELSE C
    IN save_database_to_disk(C1, TRUE, io_ok)

\* MappingManager.__init__ on the database file db and the music root dsk.
mapping_manager_init(db, dsk, save_ok, scan_ok) ==
    LET C0 == [files |-> EmptyDict, mappings |-> EmptyDict,
               database_changed |-> FALSE, save_database_timer |-> None,
               pending_timers |-> 0,
               mapping_file |-> db]
    IN scan_directory(load_database(C0, save_ok), dsk, scan_ok).C

\* ----------------------------------------------------- playback controller

\* The audio player as one record.
Aud == [current_player |-> current_player, is_playing |-> is_playing,
        metadata |-> metadata, current_file |-> current_file]

SetAud(A) ==
    /\ current_player' = A.current_player
    /\ is_playing' = A.is_playing
    /\ metadata' = A.metadata
    /\ current_file' = A.current_file

\* The literal 3000 of _save_current_position and that of has_ended.
NearEndSaveMs == 3000
NearEndEndedMs == 3000

\* The call self._createVLCInstance().  The method is defined in the class
\* body without a self parameter and without @staticmethod, so the bound call
\* passes one positional argument to a function that takes none: the call
\* raises TypeError before vlc.Instance is reached.
createVLCInstance == "TypeError"

save_current_position(A, C) ==
    IF A.current_player # NoPlayer /\ A.current_file # NoPath
    THEN LET position == A.current_player.time
             duration == A.current_player.length
         IN update_position(C, A.current_file,
                IF duration > 0 /\ (duration - position) <= NearEndSaveMs
                THEN 0 ELSE position)
    ELSE C

\* The is_playing property: [A, value] (reading it refreshes _is_playing).
is_playing_property(A) ==
    IF A.current_player # NoPlayer
    THEN [A |-> [A EXCEPT !.is_playing = (A.current_player.state = "Playing")],
          value |-> (A.current_player.state = "Playing")]
    ELSE [A |-> A, value |-> A.is_playing]

has_ended(A) ==
    /\ A.current_player # NoPlayer
    /\ A.current_player.length > 0
    /\ (A.current_player.length - A.current_player.time) <= NearEndEndedMs

\* play() from line 167 on, once an engine instance exists: the new session
\* starts at 0, then the restore loop calls .get on every value of mappings,
\* which are strings.  Returns [A, C, ret].
play_with_instance(A, C, file_path) ==
    LET name == file_path.segs[Len(file_path.segs)]
        A1 == [A EXCEPT !.current_player = [state |-> "Playing", time |-> 0,
                                            length |-> Duration(name),
                                            media |-> file_path],
                        !.metadata = file_path,
                        !.is_playing = TRUE,
                        !.current_file = file_path]
    IN IF ~to_relative_path(file_path).ok
       THEN [A |-> A1, C |-> C, ret |-> FALSE]
       ELSE IF DOMAIN C.mappings # {}
            THEN [A |-> A1, C |-> C, ret |-> FALSE]
            ELSE [A |-> A1, C |-> C, ret |-> TRUE]

\* AudioPlayer.play.  Returns [A, C, ret].
play(A, C, file_path) ==
    LET C1 == IF A.current_file # NoPath /\ A.current_file # file_path
              THEN save_current_position(A, C)
              ELSE C
        A1 == IF A.current_player # NoPlayer
              THEN [A EXCEPT !.current_player = NoPlayer]
              ELSE A
    IN IF createVLCInstance = "TypeError"
       THEN [A |-> A1, C |-> C1, ret |-> FALSE]
       ELSE play_with_instance(A1, C1, file_path)

\* AudioPlayer.stop.  Returns [A, C].
stop(A, C) ==
    [A |-> IF A.current_player # NoPlayer
           THEN [A EXCEPT !.current_player.state = "Stopped",
                          !.current_player.time = 0,
                          !.is_playing = FALSE,
                          !.current_file = NoPath]
           ELSE A,
     C |-> save_current_position(A, C)]

\* AudioPlayer.pause (the engine's pause() toggles).  Returns [A, C].
pause(A, C) ==
    [A |-> IF A.current_player # NoPlayer
           THEN [A EXCEPT !.current_player.state =
                              IF A.current_player.state = "Playing" THEN "Paused"
                              ELSE IF A.current_player.state = "Paused" THEN "Playing"
                              ELSE A.current_player.state,
                          !.is_playing = FALSE]
           ELSE A,
     C |-> save_current_position(A, C)]

\* AudioPlayer.resume.
resume(A) ==
    IF A.current_player # NoPlayer
    THEN [A EXCEPT !.current_player.state = "Playing", !.is_playing = TRUE]
    ELSE A

\* AudioPlayer.get_status: [A, status]; reading is_playing refreshes
\* _is_playing, the metadata is the _metadata field as it stands.
get_status(A) ==
    LET p == is_playing_property(A)
    IN [A |-> p.A,
        status |-> [is_playing |-> p.value,
                    has_ended |-> has_ended(p.A),
                    position |-> IF A.current_player # NoPlayer
                                 THEN A.current_player.time \div 1000 ELSE 0,
                    length |-> IF A.current_player # NoPlayer
                               THEN A.current_player.length \div 1000 ELSE 0,
                    metadata |-> A.metadata]]

\* bool(v) of a method's return value; pause() and resume() end without a
\* return statement, so they return None.
truthy(v) == v \notin {None, FALSE}

\* POST /pause: the handler raises when "not audio_player.pause()", and the
\* error handler turns the exception into an error answer.  Returns
\* [A, C, status].
pause_playback(A, C) ==
    LET r == pause(A, C)
        returned == None
    IN [A |-> r.A, C |-> r.C,
        status |-> IF ~truthy(returned) THEN "error" ELSE "success"]

\* POST /resume.  Returns [A, C, status].
resume_playback(A, C) ==
    LET A1 == resume(A)
        returned == None
    IN [A |-> A1, C |-> C,
        status |-> IF ~truthy(returned) THEN "error" ELSE "success"]

min(a, b) == IF a <= b THEN a ELSE b

max(a, b) == IF a >= b THEN a ELSE b

\* seek_to_position from line 69 on, once an engine instance exists: a new
\* session on _current_file is started, sought to position_ms (reseek_ok: the
\* engine honours that set_time, whose result is not looked at), paused when
\* _is_playing was False, and replaces the old one.  Returns [A, ret].
seek_to_position_with_instance(A, position_ms, reseek_ok) ==
    [A |-> [A EXCEPT !.current_player =
                         [state |-> IF A.is_playing THEN "Playing" ELSE "Paused",
                          time |-> IF reseek_ok THEN position_ms ELSE 0,
                          length |-> A.current_player.length,
                          media |-> A.current_file]],
     ret |-> TRUE]

\* AudioPlayer.seek_to_position.  seek_ok: set_time returned 0 and the engine
\* is not in its Error state.  Returns [A, ret].
seek_to_position(A, position_ms, seek_ok, reseek_ok) ==
    IF ~(A.current_player # NoPlayer /\ A.current_file # NoPath)
    THEN [A |-> A, ret |-> FALSE]
    ELSE LET duration == A.current_player.length
             target == max(0, min(position_ms, duration))
         IN IF seek_ok
            THEN [A |-> [A EXCEPT !.current_player.time = target], ret |-> TRUE]
            ELSE IF createVLCInstance = "TypeError"
                 THEN [A |-> A, ret |-> FALSE]
                 ELSE seek_to_position_with_instance(A, target, reseek_ok)

\* AudioPlayer.seek_relative.  Returns [A, ret].
seek_relative(A, offset_ms, seek_ok, reseek_ok) ==
    IF A.current_player = NoPlayer
    THEN [A |-> A, ret |-> FALSE]
    ELSE seek_to_position(A, A.current_player.time + offset_ms, seek_ok, reseek_ok)

skip_forward(A, ms, seek_ok, reseek_ok) == seek_relative(A, ms, seek_ok, reseek_ok)

skip_backward(A, ms, seek_ok, reseek_ok) == seek_relative(A, 0 - ms, seek_ok, reseek_ok)

\* ------------------------------------------------------- dispatch policy

\* handle_tag returns [A, C, tag, ret]; tag is the new _current_playing_tag
\* and cur the one it was called with.

\* Variant of handle_tag_unmapped: the current tag is assigned before the
\* lookup.
handle_tag_unmapped_assigns(A, C, cur, tag_id) ==
    [A |-> A, C |-> C, tag |-> tag_id, ret |-> FALSE]

\* No mapping for the tag.
handle_tag_unmapped(A, C, cur, tag_id) ==
    [A |-> A, C |-> C, tag |-> cur, ret |-> FALSE]

\* Case 1: the tag is the current one.
handle_tag_same(A, C, cur, tag_id) ==
    LET file_path == get_mapped_file(C, tag_id)
        ip == is_playing_property(A)
    IN IF has_ended(A)
       THEN LET p == play(A, C, file_path)
            IN [A |-> IF p.ret THEN is_playing_property(p.A).A ELSE p.A,
                C |-> p.C, tag |-> cur, ret |-> p.ret]
       ELSE IF ip.value
            THEN LET q == pause(ip.A, C)
                 IN [A |-> is_playing_property(q.A).A, C |-> q.C,
                     tag |-> cur, ret |-> TRUE]
            ELSE [A |-> is_playing_property(resume(ip.A)).A, C |-> C,
                  tag |-> cur, ret |-> TRUE]

\* Case 2: a different tag, or no current tag.
handle_tag_different(A, C, cur, tag_id) ==
    LET file_path == get_mapped_file(C, tag_id)
        ip == is_playing_property(A)
        s == IF ip.value THEN stop(ip.A, C) ELSE [A |-> ip.A, C |-> C]
        p == play(s.A, s.C, file_path)
    IN [A |-> IF p.ret THEN is_playing_property(p.A).A ELSE p.A,
        C |-> p.C,
        tag |-> IF p.ret THEN tag_id ELSE None,
        ret |-> p.ret]

\* MusicBox.handle_tag.
handle_tag(A, C, cur, tag_id) ==
    IF get_mapped_file(C, tag_id) = NoPath
    THEN handle_tag_unmapped(A, C, cur, tag_id)
    ELSE IF tag_id = cur
         THEN handle_tag_same(A, C, cur, tag_id)
         ELSE handle_tag_different(A, C, cur, tag_id)

\* The end-of-track check of MusicBox.run: [tag, logged].
end_of_track_check(A, cur, logged) ==
    IF has_ended(A) /\ ~logged
    THEN [tag |-> None, logged |-> TRUE]
    ELSE [tag |-> cur, logged |-> logged]

\* validate_filename of the HTTP layer.
validate_filename(filename) ==
    /\ path_name(filename) = filename
    /\ strlen(filename) > 0
    /\ strlen(filename) < 255
    /\ ~startswith_dot(filename)

\* tag_id.isalnum() and len(tag_id) <= 50, on the tag ids of TagIdInputs.
validate_tag_id(tag_id) == tag_id # "TAG_1"

\* map_tag: the tag id gets the TAG_ prefix unless it has it.
with_tag_prefix(tag_id) ==
    IF tag_id = "1" THEN "TAG_1" ELSE tag_id

\* ------------------------------------------------------------ state machine

\* No tag in front of the reader in this main-loop iteration.
NoTag == "idle"

\* The dispatch history is void once anything but a main-loop iteration ran
\* in this process.
Void == <<"void">>

Op(op, tag, path, ok) == [op |-> op, tag |-> tag, path |-> path, ok |-> ok]

\* State after MappingManager(...), AudioPlayer(mapping_manager) and MusicBox().
Constructed(db, dsk, save_ok, scan_ok) ==
    /\ SetCat(mapping_manager_init(db, dsk, save_ok, scan_ok))
    /\ SetAud([current_player |-> NoPlayer, is_playing |-> FALSE,
               metadata |-> NoPath, current_file |-> NoPath])
    /\ current_playing_tag' = None
    /\ track_end_logged' = TRUE
    /\ taps' = <<>>

\* AudioPlayer.cleanup: the playback position is checkpointed and the engine
\* session released.  Returns [A, C].
audio_player_cleanup(A, C) ==
    [A |-> [A EXCEPT !.current_player = NoPlayer,
                     !.is_playing = FALSE,
                     !.current_file = NoPath],
     C |-> save_current_position(A, C)]

\* Variant of musicbox_cleanup: the first step that raises ends the teardown.
musicbox_cleanup_all_or_nothing(A, C, audio_ok, io_ok, spotify_ok) ==
    LET s1 == [A |-> A, C |-> C, steps |-> <<"rfid_reader">>, cleanup_errors |-> {}]
        s2 == [s1 EXCEPT !.steps = Append(@, "api_server")]
        a == audio_player_cleanup(s2.A, s2.C)
        s3 == IF audio_ok
              THEN [s2 EXCEPT !.A = a.A, !.C = a.C,
                              !.steps = Append(@, "audio_player")]
              ELSE [s2 EXCEPT !.steps = Append(@, "audio_player"),
                              !.cleanup_errors = @ \cup {"audio_player"}]
        s4 == [s3 EXCEPT !.C = mapping_manager_cleanup(s3.C, io_ok).C,
                         !.steps = Append(@, "mapping_manager")]
        s5 == [s4 EXCEPT !.steps = Append(@, "spotify_downloader"),
                         !.cleanup_errors = IF spotify_ok THEN @
                                            ELSE @ \cup {"spotify_downloader"}]
    IN IF s3.cleanup_errors # {} THEN s3 ELSE s5

\* MusicBox.cleanup: five steps, each in its own try block.  The reader
\* thread is joined, APIServer.cleanup and MappingManager.cleanup catch what
\* goes wrong inside them; the audio player's and the downloader's cleanup can
\* raise (audio_ok, spotify_ok).  Returns [A, C, steps, cleanup_errors].
musicbox_cleanup(A, C, audio_ok, io_ok, spotify_ok) ==
    LET s1 == [A |-> A, C |-> C, steps |-> <<"rfid_reader">>, cleanup_errors |-> {}]
        s2 == [s1 EXCEPT !.steps = Append(@, "api_server")]
        a == audio_player_cleanup(s2.A, s2.C)
        s3 == IF audio_ok
              THEN [s2 EXCEPT !.A = a.A, !.C = a.C,
                              !.steps = Append(@, "audio_player")]
              ELSE [s2 EXCEPT !.steps = Append(@, "audio_player"),
                              !.cleanup_errors = @ \cup {"audio_player"}]
        s4 == [s3 EXCEPT !.C = mapping_manager_cleanup(s3.C, io_ok).C,
                         !.steps = Append(@, "mapping_manager")]
        s5 == [s4 EXCEPT !.steps = Append(@, "spotify_downloader"),
                         !.cleanup_errors = IF spotify_ok THEN @
                                            ELSE @ \cup {"spotify_downloader"}]
    IN s5

\* The threads that can be inside _save_database_to_disk: the deferred-flush
\* timer's thread and the caller of cleanup().
Savers == {"timer", "cleanup"}

\* No save under way and no temporary file.  pc is a saver's position in
\* _save_database_to_disk; fd is the file its open handle now refers to: the
\* one named by temp_file, the one since renamed to the database file, or one
\* that no name refers to any more.
NoSaving ==
    [temp_file |-> MissingFile,
     pc |-> [s \in Savers |-> "idle"],
     fd |-> [s \in Savers |-> "none"]]

\* Before a shutdown: _shutdown_requested is False and cleanup() has run no
\* step.  steps lists the steps of MusicBox.cleanup in the order they ran,
\* cleanup_errors the steps that raised.
NoTeardown == [requested |-> FALSE, steps |-> <<>>, cleanup_errors |-> {}]

\* No catalog operation is in the middle of its statements.  scan_pc is the
\* position of a scan_directory call (its locals: current_files and the new
\* mappings dict it has built), add_pc that of an add_mapping call (its
\* locals: rfid_tag and rel_path), play_pc that of a play call made by an
\* HTTP handler (its local: file_path).
NoInFlight == [scan_pc |-> "idle", current_files |-> {}, new_mappings |-> EmptyDict,
               add_pc |-> "idle", rfid_tag |-> None, rel_path |-> <<>>,
               play_pc |-> "idle", file_path |-> NoPath]

\* URLs posted to /spotify/download: two that _validate_spotify_url accepts
\* and one it rejects.
Urls == {"https://open.spotify.com/track/1", "https://open.spotify.com/track/2"}
UrlInputs == Urls \cup {"ftp://open.spotify.com/track/1"}

\* The threads that can be inside add_track: handlers of the HTTP server.
Adders == {"http_1", "http_2"}

\* State after SpotifyDownloader(...): _running is set, the queue is empty and
\* the worker thread has started.  worker is the worker's position: at the
\* test of its while loop, holding a URL it took from the queue, or exited.
\* adding holds, for each caller of add_track that has passed the test of
\* _running, the URL it is about to put.  stop is the position of the call of
\* stop().  accepted lists the URLs for which add_track returned True and
\* processed the URLs the worker ran a download for.
NoDownloader ==
    [running |-> TRUE,
     download_queue |-> <<>>,
     current_download |-> None,
     worker |-> "loop",
     adding |-> [a \in Adders |-> None],
     stop |-> "idle",
     accepted |-> <<>>,
     processed |-> <<>>]

\* Time runs in tenths of a second.  Polls are followed up to MaxTime after
\* the start of the process, and at most MaxSensed of them sense a tag.
MaxTime == 60
MaxSensed == 2

\* time.time() when the process starts: later than the epoch, to which
\* _last_activity = 0 refers, by more than any activity timeout.
StartTime == 301

\* The sentinels of the mock reader, and what read_tag can return.
Sentinels == {"QUIT", "L"}

ReaderIds == {"TAG_1", "QUIT", "L"}

\* The defaults of rfid.slow_polling, rfid.fast_polling and
\* rfid.transition_polling.
DefaultSlowPolling == 20
DefaultFastPolling == 1
DefaultTransitionPolling == 100

\* Variant of PollerOf: the configured values are used as they are.
PollerOf_unclamped(slow_polling, fast_polling, transition_polling) ==
    [settings |-> [slow_polling |-> slow_polling,
                   fast_polling |-> fast_polling,
                   transition_polling |-> transition_polling],
     polling_interval |-> slow_polling,
     busy_interval |-> fast_polling,
     activity_timeout |-> transition_polling,
     current_interval |-> slow_polling,
     last_activity |-> 0,
     now |-> StartTime,
     tag_queue |-> <<>>,
     sensed |-> <<>>,
     handled |-> <<>>]

\* The fields MusicBox.__init__ sets from the three configured values, each
\* clamped: max(lo, min(hi, value)).
PollerOf(slow_polling, fast_polling, transition_polling) ==
    [settings |-> [slow_polling |-> slow_polling, fast_polling |-> fast_polling,
                   transition_polling |-> transition_polling],
     polling_interval |-> max(5, min(50, slow_polling)),
     busy_interval |-> max(1, min(10, fast_polling)),
     activity_timeout |-> max(50, min(300, transition_polling)),
     current_interval |-> max(5, min(50, slow_polling)),
     last_activity |-> 0,
     now |-> StartTime,
     tag_queue |-> <<>>,
     sensed |-> <<>>,
     handled |-> <<>>]

\* Variant of rfid_polling_loop: a poll that senses nothing goes back to the
\* slow interval at once.
rfid_polling_loop_eager(P, tag_id, raises) ==
    IF raises
    THEN [P EXCEPT !.now = @ + 10]
    ELSE LET P1 == IF tag_id # NoTag
                   THEN [P EXCEPT !.tag_queue = Append(@, tag_id),
                                  !.sensed = Append(@, tag_id),
                                  !.last_activity = P.now,
                                  !.current_interval = P.busy_interval]
                   ELSE [P EXCEPT !.current_interval = P.polling_interval]
         IN [P1 EXCEPT !.now = @ + P1.current_interval]

\* One iteration of _rfid_polling_loop; sensed is the history of the ids
\* read_tag has returned, handled that of the ids the main loop has taken.
rfid_polling_loop(P, tag_id, raises) ==
    IF raises
    THEN [P EXCEPT !.now = @ + 10]
    ELSE LET P1 == IF tag_id # NoTag
                   THEN [P EXCEPT !.tag_queue = Append(@, tag_id),
                                  !.sensed = Append(@, tag_id),
                                  !.last_activity = P.now,
                                  !.current_interval = P.busy_interval]
                   ELSE IF P.now - P.last_activity > P.activity_timeout
                        THEN [P EXCEPT !.current_interval = P.polling_interval]
                        ELSE P
         IN [P1 EXCEPT !.now = @ + P1.current_interval]

\* The state after construction with the three configured poll values.
InitOf(slow_polling, fast_polling, transition_polling) ==
    \E dsk \in {FixedNames \cup v : v \in SUBSET VariableNames},
       db \in {MissingFile, CorruptFile},
       save_ok \in BOOLEAN, scan_ok \in BOOLEAN :
        LET C == mapping_manager_init(db, dsk, save_ok, scan_ok)
        IN /\ disk = dsk
           /\ files = C.files
           /\ mappings = C.mappings
           /\ database_changed = C.database_changed
           /\ save_database_timer = C.save_database_timer
           /\ pending_timers = C.pending_timers
           /\ mapping_file = C.mapping_file
           /\ current_player = NoPlayer
           /\ is_playing = FALSE
           /\ metadata = NoPath
           /\ current_file = NoPath
           /\ current_playing_tag = None
           /\ track_end_logged = TRUE
           /\ last_op = Op("init", None, NoPath, TRUE)
           /\ taps = <<>>
           /\ saving = NoSaving
           /\ teardown = NoTeardown
           /\ poller = PollerOf(slow_polling, fast_polling, transition_polling)
           /\ in_flight = NoInFlight
           /\ downloader = NoDownloader

Init == InitOf(DefaultSlowPolling, DefaultFastPolling, DefaultTransitionPolling)

\* MappingManager.scan_directory (POST /refresh, GET /songs).
ScanDirectory ==
    \E io_ok \in BOOLEAN :
        LET r == scan_directory(Cat, disk, io_ok)
        IN /\ SetCat(r.C)
           /\ last_op' = Op("scan_directory", None, NoPath, r.ret)
           /\ taps' = Void
           /\ UNCHANGED <<disk, player_vars, current_playing_tag, track_end_logged, saving, teardown, poller, in_flight, downloader>>

\* MappingManager.add_mapping (POST /map, learning mode).
AddMapping ==
    \E rfid_tag \in Tags, file_path \in PathInputs, scan_ok \in BOOLEAN :
        LET r == add_mapping(Cat, disk, rfid_tag, file_path, scan_ok)
        IN /\ SetCat(r.C)
           /\ last_op' = Op("add_mapping", rfid_tag, file_path, r.ret)
           /\ taps' = Void
           /\ UNCHANGED <<disk, player_vars, current_playing_tag, track_end_logged, saving, teardown, poller, in_flight, downloader>>

\* MappingManager.remove_mapping.
RemoveMapping ==
    \E rfid_tag \in Tags :
        LET r == remove_mapping(Cat, rfid_tag)
        IN /\ SetCat(r.C)
           /\ last_op' = Op("remove_mapping", rfid_tag, NoPath, r.ret)
           /\ taps' = Void
           /\ UNCHANGED <<disk, player_vars, current_playing_tag, track_end_logged, saving, teardown, poller, in_flight, downloader>>

\* MappingManager.update_position.
UpdatePositionOf(file_path, position_ms) ==
        /\ SetCat(update_position(Cat, file_path, position_ms))
        /\ last_op' = Op("update_position", None, NoPath, TRUE)
        /\ taps' = Void
        /\ UNCHANGED <<disk, player_vars, current_playing_tag, track_end_logged, saving, teardown, poller, in_flight, downloader>>

UpdatePosition ==
    \E file_path \in PositionPathInputs, position_ms \in Positions :
        UpdatePositionOf(file_path, position_ms)

\* The deferred-flush timer fires: _save_database_to_disk().
TimerFire ==
    /\ save_database_timer = "alive"
    /\ \E io_ok \in BOOLEAN :
        LET r == save_database_to_disk(Cat, FALSE, io_ok)
        IN /\ SetCat(r.C)
           /\ last_op' = Op("save_database_to_disk", None, NoPath, r.ret)
           /\ taps' = Void
           /\ UNCHANGED <<disk, player_vars, current_playing_tag, track_end_logged, saving, teardown, poller, in_flight, downloader>>

\* MappingManager.cleanup; ok records whether the forced save wrote the file.
Cleanup ==
    \E io_ok \in BOOLEAN :
        LET r == mapping_manager_cleanup(Cat, io_ok)
        IN /\ SetCat(r.C)
           /\ last_op' = Op("cleanup", None, NoPath, r.ret)
           /\ taps' = Void
           /\ UNCHANGED <<disk, player_vars, current_playing_tag, track_end_logged, saving, teardown, poller, in_flight, downloader>>

\* The process ends and a new one constructs its objects on the same database
\* file and music root; ok records whether the constructor's scan succeeded.
RestartOf(save_ok, scan_ok) ==
    /\ Constructed(mapping_file, disk, save_ok, scan_ok)
    /\ last_op' = Op("restart", None, NoPath, scan_ok)
    /\ saving' = [NoSaving EXCEPT !.temp_file = saving.temp_file]
    /\ teardown' = NoTeardown
    /\ poller' = PollerOf(poller.settings.slow_polling, poller.settings.fast_polling,
                           poller.settings.transition_polling)
    /\ in_flight' = NoInFlight
    /\ downloader' = NoDownloader
    /\ UNCHANGED disk

Restart == \E save_ok \in BOOLEAN, scan_ok \in BOOLEAN : RestartOf(save_ok, scan_ok)

\* One iteration of the loop of MusicBox.run: the queued tag, if any, is
\* dispatched, then the end-of-track check runs.
RunLoopIterationOf(tag_id) ==
    /\ ~teardown.requested
    /\ LET h == IF tag_id \in {NoTag} \cup Sentinels
                THEN [A |-> Aud, C |-> Cat, tag |-> current_playing_tag, ret |-> FALSE]
                ELSE handle_tag(Aud, Cat, current_playing_tag, tag_id)
           logged == IF tag_id \notin {NoTag} \cup Sentinels /\ h.ret
                     THEN FALSE ELSE track_end_logged
           e == end_of_track_check(h.A, h.tag, logged)
       IN /\ SetAud(h.A)
          /\ SetCat(h.C)
          /\ current_playing_tag' = e.tag
          /\ track_end_logged' = e.logged
          /\ last_op' = Op("handle_tag", tag_id, NoPath, h.ret)
          /\ taps' = IF taps = Void \/ Len(taps) >= MaxTaps THEN Void
                     ELSE Append(taps, tag_id)
          /\ teardown' = IF tag_id = "QUIT"
                         THEN [teardown EXCEPT !.requested = TRUE]
                         ELSE teardown
          /\ UNCHANGED <<disk, saving, in_flight, downloader>>

\* An iteration whose tag, if any, is whatever the queue holds.
RunLoopIteration ==
    \E tag_id \in Tags \cup {NoTag} :
        /\ RunLoopIterationOf(tag_id)
        /\ UNCHANGED <<poller, in_flight, downloader>>

\* Variant of RunLoopTick: the iteration takes the newest id of the queue.
RunLoopTick_newest_first ==
    LET empty == poller.tag_queue = <<>>
        n == Len(poller.tag_queue)
        tag_id == IF empty THEN NoTag ELSE poller.tag_queue[n]
    IN /\ RunLoopIterationOf(tag_id)
       /\ poller' = IF empty THEN poller
                    ELSE [poller EXCEPT !.tag_queue = SubSeq(@, 1, n - 1),
                                        !.handled = Append(@, tag_id)]

\* An iteration that takes its tag from _tag_queue with get_nowait().
RunLoopTick ==
    LET empty == poller.tag_queue = <<>>
        tag_id == IF empty THEN NoTag ELSE Head(poller.tag_queue)
    IN /\ RunLoopIterationOf(tag_id)
       /\ poller' = IF empty THEN poller
                    ELSE [poller EXCEPT !.tag_queue = Tail(@),
                                        !.handled = Append(@, tag_id)]

\* One iteration of _rfid_polling_loop at time poller.now: read_tag returned
\* tag_id (NoTag for None) or raised, then the loop slept.
PollOf(tag_id, raises) ==
    /\ ~teardown.requested
    /\ poller.now - StartTime <= MaxTime
    /\ (tag_id # NoTag) => (Len(poller.sensed) < MaxSensed)
    /\ poller' = rfid_polling_loop(poller, tag_id, raises)
    /\ last_op' = Op("poll", tag_id, NoPath, ~raises)
    /\ UNCHANGED <<disk, catalog_vars, player_vars, current_playing_tag,
                   track_end_logged, taps, saving, teardown, in_flight, downloader>>

Poll ==
    \E tag_id \in ReaderIds \cup {NoTag}, raises \in BOOLEAN :
        PollOf(tag_id, raises)

\* POST /play with a file name.
HttpPlayOf(filename) ==
        LET music_path == to_absolute_path(<<filename>>)
            admitted == validate_filename(filename) /\ filename \in disk
            p == IF admitted THEN play(Aud, Cat, str(music_path))
                 ELSE [A |-> Aud, C |-> Cat, ret |-> FALSE]
        IN /\ SetAud(p.A)
           /\ SetCat(p.C)
           /\ last_op' = Op("http_play", IF admitted THEN "admitted" ELSE "rejected",
                            NoPath, p.ret)
           /\ taps' = Void
           /\ UNCHANGED <<disk, current_playing_tag, track_end_logged, saving, teardown, poller, in_flight, downloader>>

HttpPlay == \E filename \in DiskNames : HttpPlayOf(filename)

\* Tag ids and file names a client posts to /map.
TagIdInputs == {"1", "TAG_1"}
MapFilenames == {"a.mp3", "", "dir/a.mp3", Name255, Name300, DotName301}

\* POST /map with a tag id and a file name.
HttpMapOf(tag_id, filename, scan_ok) ==
    LET valid == validate_tag_id(tag_id) /\ validate_filename(filename)
        r == IF valid
             THEN add_mapping(Cat, disk, with_tag_prefix(tag_id),
                              str(Rel(<<filename>>)), scan_ok)
             ELSE [C |-> Cat, ret |-> FALSE]
    IN /\ SetCat(r.C)
       /\ last_op' = Op("http_map", IF valid THEN "admitted" ELSE "rejected",
                        NoPath, r.ret)
       /\ taps' = Void
       /\ UNCHANGED <<disk, player_vars, current_playing_tag, track_end_logged, saving, teardown, poller, in_flight, downloader>>

HttpMap ==
    \E tag_id \in TagIdInputs, filename \in MapFilenames, scan_ok \in BOOLEAN :
        HttpMapOf(tag_id, filename, scan_ok)

\* The environment adds an entry to the music root, or removes one.
FileAppears ==
    \E name \in VariableNames \ disk :
        /\ disk' = disk \cup {name}
        /\ last_op' = Op("environment", None, NoPath, TRUE)
        /\ taps' = Void
        /\ UNCHANGED <<catalog_vars, player_vars, current_playing_tag, track_end_logged, saving, teardown, poller, in_flight, downloader>>

FileDisappears ==
    \E name \in VariableNames \cap disk :
        /\ disk' = disk \ {name}
        /\ last_op' = Op("environment", None, NoPath, TRUE)
        /\ taps' = Void
        /\ UNCHANGED <<catalog_vars, player_vars, current_playing_tag, track_end_logged, saving, teardown, poller, in_flight, downloader>>

Next ==
    \/ ScanDirectory
    \/ AddMapping
    \/ RemoveMapping
    \/ UpdatePosition
    \/ TimerFire
    \/ Cleanup
    \/ Restart
    \/ RunLoopIteration
    \/ HttpPlay
    \/ FileAppears
    \/ FileDisappears

Spec == Init /\ [][Next]_vars

\* The catalog store alone: every operation that changes it, while files come
\* and go, with flushes and restarts.
NextMappings ==
    \/ AddMapping
    \/ RemoveMapping
    \/ UpdatePosition
    \/ ScanDirectory
    \/ TimerFire
    \/ Cleanup
    \/ Restart
    \/ FileAppears
    \/ FileDisappears

SpecMappings == Init /\ [][NextMappings]_vars

\* The store behind the HTTP map interface: clients post to /map and
\* /refresh while files come and go and the process is restarted.
NextHttpMap ==
    \/ HttpMap
    \/ ScanDirectory
    \/ Cleanup
    \/ Restart
    \/ FileAppears
    \/ FileDisappears

SpecHttpMap == Init /\ [][NextHttpMap]_vars

\* Positions handed to seek_to_position and amounts handed to the skips.
SeekInputs == {0 - 1000, 2000, 10000}

SkipInputs == {1000, 15000}

\* AudioPlayer.seek_to_position(position_ms).
SeekToPositionOf(position_ms, seek_ok, reseek_ok) ==
    LET r == seek_to_position(Aud, position_ms, seek_ok, reseek_ok)
    IN /\ SetAud(r.A)
       /\ last_op' = Op("seek_to_position", None, NoPath, r.ret)
       /\ taps' = Void
       /\ UNCHANGED <<disk, catalog_vars, current_playing_tag, track_end_logged, saving, teardown, poller, in_flight, downloader>>

SeekToPosition ==
    \E position_ms \in SeekInputs, seek_ok \in BOOLEAN, reseek_ok \in BOOLEAN :
        SeekToPositionOf(position_ms, seek_ok, reseek_ok)

\* AudioPlayer.skip_forward(ms).
SkipForwardOf(ms, seek_ok, reseek_ok) ==
    LET r == skip_forward(Aud, ms, seek_ok, reseek_ok)
    IN /\ SetAud(r.A)
       /\ last_op' = Op("skip_forward", None, NoPath, r.ret)
       /\ taps' = Void
       /\ UNCHANGED <<disk, catalog_vars, current_playing_tag, track_end_logged, saving, teardown, poller, in_flight, downloader>>

SkipForward ==
    \E ms \in SkipInputs, seek_ok \in BOOLEAN, reseek_ok \in BOOLEAN :
        SkipForwardOf(ms, seek_ok, reseek_ok)

\* AudioPlayer.skip_backward(ms).
SkipBackwardOf(ms, seek_ok, reseek_ok) ==
    LET r == skip_backward(Aud, ms, seek_ok, reseek_ok)
    IN /\ SetAud(r.A)
       /\ last_op' = Op("skip_backward", None, NoPath, r.ret)
       /\ taps' = Void
       /\ UNCHANGED <<disk, catalog_vars, current_playing_tag, track_end_logged, saving, teardown, poller, in_flight, downloader>>

SkipBackward ==
    \E ms \in SkipInputs, seek_ok \in BOOLEAN, reseek_ok \in BOOLEAN :
        SkipBackwardOf(ms, seek_ok, reseek_ok)

\* The process with its seek interface: taps, seeks and skips, and the
\* mappings a restart loads.
NextSeek ==
    \/ SeekToPosition
    \/ SkipForward
    \/ SkipBackward
    \/ RunLoopIteration
    \/ AddMapping
    \/ Cleanup
    \/ Restart
    \/ FileAppears
    \/ FileDisappears

SpecSeek == Init /\ [][NextSeek]_vars

\* The document json.dump writes for the maps as they are now.
document == [kind |-> "doc", files |-> json_dump(files), mappings |-> json_dump(mappings)]

\* The timer a saver leaves when its call returns: the timer's thread ends
\* with the call.
timer_after(s) ==
    IF s = "timer" /\ save_database_timer = "alive" THEN "dead"
    ELSE save_database_timer

\* The number of pending timers once the timer field has become new_timer: a
\* timer that was alive and no longer is has finished or was cancelled.
pending_after(new_timer) ==
    IF save_database_timer = "alive" /\ new_timer # "alive"
    THEN pending_timers - 1
    ELSE pending_timers

\* A saver enters _save_database_to_disk (through cleanup() for the cleanup
\* saver: lines 354-357 first) and runs to open(temp_file, 'w'), which creates
\* the temporary file or truncates the one that exists.
SaveOpen(s) ==
    /\ saving.pc[s] = "idle"
    /\ (s = "timer") => (save_database_timer = "alive")
    /\ IF ~database_changed /\ s = "timer"
       THEN /\ save_database_timer' = timer_after(s)
            /\ last_op' = Op("save_database_to_disk", s, NoPath, TRUE)
            /\ UNCHANGED saving
       ELSE /\ save_database_timer' =
                   IF s = "cleanup" /\ save_database_timer = "alive" THEN None
                   ELSE save_database_timer
            /\ saving' = [saving EXCEPT !.temp_file = CorruptFile,
                                        !.pc[s] = "opened",
                                        !.fd[s] = "temp"]
            /\ last_op' = Op("open", s, NoPath, TRUE)
    /\ pending_timers' = pending_after(save_database_timer')
    /\ taps' = Void
    /\ UNCHANGED <<disk, files, mappings, database_changed, mapping_file,
                   player_vars, current_playing_tag, track_end_logged, teardown, poller, in_flight, downloader>>

\* json.dump and the close at the end of the with block: the document goes to
\* the file the handle refers to.  io_ok = FALSE: the write raises, the call
\* returns False.
SaveClose(s, io_ok) ==
    /\ saving.pc[s] = "opened"
    /\ IF io_ok
       THEN /\ saving' = [saving EXCEPT
                            !.temp_file = IF saving.fd[s] = "temp" THEN document ELSE @,
                            !.pc[s] = "closed"]
            /\ mapping_file' = IF saving.fd[s] = "live" THEN document ELSE mapping_file
            /\ last_op' = Op("close", s, NoPath, TRUE)
            /\ UNCHANGED save_database_timer
       ELSE /\ saving' = [saving EXCEPT !.pc[s] = "idle", !.fd[s] = "none"]
            /\ save_database_timer' = timer_after(s)
            /\ last_op' = Op("save_database_to_disk", s, NoPath, FALSE)
            /\ UNCHANGED mapping_file
    /\ pending_timers' = pending_after(save_database_timer')
    /\ taps' = Void
    /\ UNCHANGED <<disk, files, mappings, database_changed,
                   player_vars, current_playing_tag, track_end_logged, teardown, poller, in_flight, downloader>>

\* temp_file.replace(mapping_file) and the return: the file named by temp_file
\* becomes the database file; when no such file exists the rename raises and
\* the call returns False.
SaveReplace(s) ==
    /\ saving.pc[s] = "closed"
    /\ IF saving.temp_file.kind # "missing"
       THEN /\ mapping_file' = saving.temp_file
            /\ saving' = [temp_file |-> MissingFile,
                          pc |-> [saving.pc EXCEPT ![s] = "idle"],
                          fd |-> [x \in Savers |->
                                     IF x = s THEN "none"
                                     ELSE IF saving.fd[x] = "temp" THEN "live"
                                     ELSE IF saving.fd[x] = "live" THEN "lost"
                                     ELSE saving.fd[x]]]
            /\ database_changed' = FALSE
            /\ last_op' = Op("save_database_to_disk", s, NoPath, TRUE)
       ELSE /\ saving' = [saving EXCEPT !.pc[s] = "idle", !.fd[s] = "none"]
            /\ last_op' = Op("save_database_to_disk", s, NoPath, FALSE)
            /\ UNCHANGED <<mapping_file, database_changed>>
    /\ save_database_timer' = timer_after(s)
    /\ pending_timers' = pending_after(save_database_timer')
    /\ taps' = Void
    /\ UNCHANGED <<disk, files, mappings,
                   player_vars, current_playing_tag, track_end_logged, teardown, poller, in_flight, downloader>>

SaveOpenStep == \E s \in Savers : SaveOpen(s)

SaveCloseStep == \E s \in Savers, io_ok \in BOOLEAN : SaveClose(s, io_ok)

SaveReplaceStep == \E s \in Savers : SaveReplace(s)

\* The catalog store with its saves taken step by step: the timer's save and
\* the save of cleanup() interleave with each other, with scans that change
\* the maps, and with the end of the process.
NextSave ==
    \/ SaveOpenStep
    \/ SaveCloseStep
    \/ SaveReplaceStep
    \/ ScanDirectory
    \/ FileAppears
    \/ FileDisappears
    \/ Restart

SpecSave == Init /\ [][NextSave]_vars

\* The deferred flush alone, step by step on the timer's thread, while other
\* threads change the maps.
TimerSaveOpenStep == SaveOpen("timer")

TimerSaveCloseStep == \E io_ok \in BOOLEAN : SaveClose("timer", io_ok)

TimerSaveReplaceStep == SaveReplace("timer")

NextFlush ==
    \/ TimerSaveOpenStep
    \/ TimerSaveCloseStep
    \/ TimerSaveReplaceStep
    \/ ScanDirectory
    \/ AddMapping
    \/ FileAppears
    \/ FileDisappears

SpecFlush == Init /\ [][NextFlush]_vars

\* Checkpoints arriving at the catalog store between firings of the deferred
\* flush, scans and cleanup() calls.
NextDebounce ==
    \/ UpdatePosition
    \/ TimerFire
    \/ ScanDirectory
    \/ Cleanup
    \/ FileAppears
    \/ FileDisappears

SpecDebounce == Init /\ [][NextDebounce]_vars

\* GracefulShutdown.exit_gracefully (SIGTERM, SIGINT), and the QUIT command
\* of the main loop: _shutdown_requested becomes True.
ExitGracefully ==
    /\ ~teardown.requested
    /\ teardown' = [teardown EXCEPT !.requested = TRUE]
    /\ last_op' = Op("exit_gracefully", None, NoPath, TRUE)
    /\ UNCHANGED <<disk, catalog_vars, player_vars, current_playing_tag,
                   track_end_logged, saving, taps, poller, in_flight, downloader>>

\* The finally clause of MusicBox.run: the loop has ended and cleanup() runs;
\* ok records whether it returned without raising.
MusicBoxCleanupOf(audio_ok, io_ok, spotify_ok) ==
    /\ teardown.requested
    /\ teardown.steps = <<>>
    /\ LET r == musicbox_cleanup(Aud, Cat, audio_ok, io_ok, spotify_ok)
       IN /\ SetAud(r.A)
          /\ SetCat(r.C)
          /\ teardown' = [requested |-> TRUE, steps |-> r.steps,
                          cleanup_errors |-> r.cleanup_errors]
          /\ last_op' = Op("musicbox_cleanup", None, NoPath, r.cleanup_errors = {})
    /\ taps' = Void
    /\ UNCHANGED <<disk, current_playing_tag, track_end_logged, saving, poller, in_flight, downloader>>

MusicBoxCleanup ==
    \E audio_ok \in BOOLEAN, io_ok \in BOOLEAN, spotify_ok \in BOOLEAN :
        MusicBoxCleanupOf(audio_ok, io_ok, spotify_ok)

\* The process from its main loop to its end: taps, changes of the mappings,
\* the shutdown request, the teardown, and the next start.
NextShutdown ==
    \/ RunLoopIteration
    \/ AddMapping
    \/ ExitGracefully
    \/ MusicBoxCleanup
    \/ Restart

SpecShutdown == Init /\ [][NextShutdown]_vars

\* scan_directory, statement by statement, as run by one HTTP handler thread
\* (GET /songs, POST /refresh) while other threads use the catalog.
\* The walk of the music directory.
ScanWalkStep ==
    /\ in_flight.scan_pc = "idle"
    /\ in_flight' = [in_flight EXCEPT !.scan_pc = "walked",
                                      !.current_files = current_files(disk)]
    /\ last_op' = Op("scan_walk", None, NoPath, TRUE)
    /\ taps' = Void
    /\ UNCHANGED <<disk, catalog_vars, player_vars, current_playing_tag,
                   track_end_logged, saving, teardown, poller, downloader>>

\* self.files is rebuilt: entries of vanished files go, new files are added.
ScanFilesStep ==
    /\ in_flight.scan_pc = "walked"
    /\ LET cur == in_flight.current_files
           kept == Restrict(files, cur)
       IN files' = [p \in cur |-> IF p \in DOMAIN kept THEN kept[p]
                                  ELSE new_file_record(p[1])]
    /\ in_flight' = [in_flight EXCEPT !.scan_pc = "files"]
    /\ last_op' = Op("scan_files", None, NoPath, TRUE)
    /\ taps' = Void
    /\ UNCHANGED <<disk, mappings, database_changed, save_database_timer, pending_timers,
                   mapping_file,
                   player_vars, current_playing_tag, track_end_logged, saving,
                   teardown, poller, downloader>>

\* The dict of the mappings whose file is still known is built.
ScanReadMappingsStep ==
    /\ in_flight.scan_pc = "files"
    /\ in_flight' = [in_flight EXCEPT
                        !.scan_pc = "read",
                        !.new_mappings =
                            Restrict(mappings, {t \in DOMAIN mappings :
                                                    mappings[t] \in DOMAIN files})]
    /\ last_op' = Op("scan_read", None, NoPath, TRUE)
    /\ taps' = Void
    /\ UNCHANGED <<disk, catalog_vars, player_vars, current_playing_tag,
                   track_end_logged, saving, teardown, poller, downloader>>

\* The dict is stored in self.mappings and the store is marked changed.
ScanStoreMappingsStep ==
    /\ in_flight.scan_pc = "read"
    /\ SetCat(mark_database_changed([Cat EXCEPT !.mappings = in_flight.new_mappings]))
    /\ in_flight' = [in_flight EXCEPT !.scan_pc = "idle", !.current_files = {},
                                      !.new_mappings = EmptyDict]
    /\ last_op' = Op("scan_store", None, NoPath, TRUE)
    /\ taps' = Void
    /\ UNCHANGED <<disk, player_vars, current_playing_tag, track_end_logged, saving,
                   teardown, poller, downloader>>

\* add_mapping up to its second membership test, as run by another thread
\* (POST /map); a path not yet known is looked for with a scan first.
AddMappingCheckStep ==
    \E rfid_tag \in Tags, file_path \in CatalogPathInputs :
        LET r == to_relative_path(file_path)
            C1 == IF r.rel \notin DOMAIN files
                  THEN scan_directory(Cat, disk, TRUE).C
                  ELSE Cat
            found == r.ok /\ r.rel \in DOMAIN C1.files
        IN /\ in_flight.add_pc = "idle"
           /\ SetCat(IF r.ok THEN C1 ELSE Cat)
           /\ in_flight' = IF found
                           THEN [in_flight EXCEPT !.add_pc = "checked",
                                                  !.rfid_tag = rfid_tag,
                                                  !.rel_path = r.rel]
                           ELSE in_flight
           /\ last_op' = Op("add_check", rfid_tag, file_path, found)
           /\ taps' = Void
           /\ UNCHANGED <<disk, player_vars, current_playing_tag, track_end_logged,
                          saving, teardown, poller, downloader>>

\* The rest of add_mapping: the mapping is stored and the store marked changed.
AddMappingStoreStep ==
    /\ in_flight.add_pc = "checked"
    /\ SetCat(mark_database_changed(
                  [Cat EXCEPT !.mappings = Put(mappings, in_flight.rfid_tag,
                                               in_flight.rel_path)]))
    /\ in_flight' = [in_flight EXCEPT !.add_pc = "idle", !.rfid_tag = None,
                                      !.rel_path = <<>>]
    /\ last_op' = Op("add_mapping", in_flight.rfid_tag, Rel(in_flight.rel_path), TRUE)
    /\ taps' = Void
    /\ UNCHANGED <<disk, player_vars, current_playing_tag, track_end_logged, saving,
                   teardown, poller, downloader>>

NextCatalog ==
    \/ ScanWalkStep
    \/ ScanFilesStep
    \/ ScanReadMappingsStep
    \/ ScanStoreMappingsStep
    \/ AddMappingCheckStep
    \/ AddMappingStoreStep
    \/ FileAppears
    \/ FileDisappears

SpecCatalog == Init /\ [][NextCatalog]_vars

\* POST /play on the HTTP thread, in two steps, while the dispatch loop runs
\* on the main thread.  First step: the handler's checks, then play() up to
\* the release of the session in use.
HttpPlayReleaseStep ==
    \E filename \in DiskNames :
        LET music_path == to_absolute_path(<<filename>>)
            file_path == str(music_path)
            admitted == validate_filename(filename) /\ filename \in disk
            C1 == IF current_file # NoPath /\ current_file # file_path
                  THEN save_current_position(Aud, Cat)
                  ELSE Cat
            A1 == IF current_player # NoPlayer
                  THEN [Aud EXCEPT !.current_player = NoPlayer]
                  ELSE Aud
        IN /\ in_flight.play_pc = "idle"
           /\ SetAud(IF admitted THEN A1 ELSE Aud)
           /\ SetCat(IF admitted THEN C1 ELSE Cat)
           /\ in_flight' = IF admitted
                           THEN [in_flight EXCEPT !.play_pc = "released",
                                                  !.file_path = file_path]
                           ELSE in_flight
           /\ last_op' = Op(IF admitted THEN "play_release" ELSE "play_return",
                            IF admitted THEN "admitted" ELSE "rejected", NoPath, FALSE)
           /\ taps' = Void
           /\ UNCHANGED <<disk, current_playing_tag, track_end_logged, saving, teardown,
                          poller, downloader>>

\* Second step: the rest of play(), from the creation of the engine instance
\* to its return, and the handler's answer.
HttpPlayCreateStep ==
    LET p == IF createVLCInstance = "TypeError"
             THEN [A |-> Aud, C |-> Cat, ret |-> FALSE]
             ELSE play_with_instance(Aud, Cat, in_flight.file_path)
    IN /\ in_flight.play_pc = "released"
       /\ SetAud(p.A)
       /\ SetCat(p.C)
       /\ in_flight' = [in_flight EXCEPT !.play_pc = "idle", !.file_path = NoPath]
       /\ last_op' = Op("play_return", "admitted", in_flight.file_path, p.ret)
       /\ taps' = Void
       /\ UNCHANGED <<disk, current_playing_tag, track_end_logged, saving, teardown,
                      poller, downloader>>

\* POST /pause.
PausePlayback ==
    LET r == pause_playback(Aud, Cat)
    IN /\ SetAud(r.A)
       /\ SetCat(r.C)
       /\ last_op' = Op("pause_playback", None, NoPath, r.status = "success")
       /\ taps' = Void
       /\ UNCHANGED <<disk, current_playing_tag, track_end_logged, saving, teardown,
                      poller, in_flight, downloader>>

\* POST /resume.
ResumePlayback ==
    LET r == resume_playback(Aud, Cat)
    IN /\ SetAud(r.A)
       /\ SetCat(r.C)
       /\ last_op' = Op("resume_playback", None, NoPath, r.status = "success")
       /\ taps' = Void
       /\ UNCHANGED <<disk, current_playing_tag, track_end_logged, saving, teardown,
                      poller, in_flight, downloader>>

\* GET /status.
GetStatus ==
    LET r == get_status(Aud)
    IN /\ SetAud(r.A)
       /\ last_op' = Op("get_status", None, r.status.metadata, r.status.is_playing)
       /\ taps' = Void
       /\ UNCHANGED <<disk, catalog_vars, current_playing_tag, track_end_logged, saving,
                      teardown, poller, in_flight, downloader>>

NextPlayback ==
    \/ GetStatus
    \/ HttpPlayReleaseStep
    \/ HttpPlayCreateStep
    \/ PausePlayback
    \/ ResumePlayback
    \/ RunLoopIteration
    \/ AddMapping
    \/ FileAppears
    \/ FileDisappears

SpecPlayback == Init /\ [][NextPlayback]_vars

\* Values the three poll settings are configured with: below, inside and
\* above their ranges.
SlowPollingInputs == {2, 10, 80}

FastPollingInputs == {0, 5, 20}

TransitionPollingInputs == {10, 55, 400}

\* The settings a process is configured with: one of the three away from
\* its default at a time.
PollSettingsInputs ==
    {<<v, DefaultFastPolling, DefaultTransitionPolling>> : v \in SlowPollingInputs}
        \cup {<<DefaultSlowPolling, v, DefaultTransitionPolling>> : v \in FastPollingInputs}
        \cup {<<DefaultSlowPolling, DefaultFastPolling, v>> : v \in TransitionPollingInputs}

\* A process configured with any of these settings, started on a music root
\* with every file present.
InitPolling ==
    /\ \E cfg \in PollSettingsInputs : InitOf(cfg[1], cfg[2], cfg[3])
    /\ disk = DiskNames
    /\ mapping_file.kind = "doc"
    /\ files # EmptyDict

\* The polling thread by itself.
NextPolling ==
    \/ Poll

SpecPolling == InitPolling /\ [][NextPolling]_vars

\* A process with the widest intervals, so that polls are few.
InitQueue ==
    /\ InitOf(80, 20, 400)
    /\ disk = DiskNames
    /\ mapping_file.kind = "doc"
    /\ files # EmptyDict

\* The polling thread and the main loop that consumes its queue.
NextQueue ==
    \/ Poll
    \/ RunLoopTick

SpecQueue == InitQueue /\ [][NextQueue]_vars

\* The main loop keeps running: its iterations are not postponed for ever.
SpecQueueFair == SpecQueue /\ WF_vars(RunLoopTick)

\* ------------------------------------------------------------- properties

\* The entry a stored relative path names is present in the music root.
OnDisk(rel) == Len(rel) = 1 /\ rel[1] \in disk

\* Tag t is mapped and its file is present.
Playable(t) == t \in DOMAIN mappings /\ OnDisk(mappings[t])

\* The absolute path of a path handed in by a caller.
AbsoluteOf(path) ==
    Abs(resolve(IF path.abs THEN path.segs ELSE MusicDir \o path.segs))

\* What _save_current_position stores for a session at time x of length d.
checkpoint_value(x, d) == IF d > 0 /\ d - x <= NearEndSaveMs THEN 0 ELSE x

C2_DifferentTagSwitch ==
    \A t1 \in Tags, t2 \in Tags :
        (/\ t1 # t2
         /\ Playable(t1)
         /\ Playable(t2)
         /\ mappings[t1] # mappings[t2]
         /\ taps = <<t1, t2>>) =>
            /\ current_player.state = "Playing"
            /\ is_playing
            /\ current_file = to_absolute_path(mappings[t2])
            /\ current_playing_tag = t2
            /\ files[mappings[t1]].last_position \in Positions

\* C3: an unmapped tap is a no-op.  A main-loop iteration that dispatches a
\* tag without an entry in mappings leaves the player (engine handle, playing
\* flag, loaded file), the current tag, files and mappings unchanged, and
\* handle_tag returns False.
C3_UnmappedTapNoOp ==
    [][(/\ last_op'.op = "handle_tag"
        /\ last_op'.tag \in Tags
        /\ last_op'.tag \notin DOMAIN mappings) =>
           /\ ~last_op'.ok
           /\ UNCHANGED <<player_vars, current_playing_tag, files, mappings>>]_vars

\* C3 witness: an unmapped tag was dispatched while another tag was mapped.
C3_Witness ==
    /\ last_op.op = "handle_tag"
    /\ last_op.tag \in Tags
    /\ last_op.tag \notin DOMAIN mappings
    /\ ~last_op.ok
    /\ DOMAIN mappings # {}

\* C4: restart on ended.  In a process that has dispatched a tap of t (mapped
\* to a present file), then run a main-loop iteration without a tap, then
\* dispatched t again, t's file is loaded with a live engine session and the
\* current tag is t; when the track had ended before the second tap, that
\* session was started from position 0 and is Playing.
C4_RestartOnEnded ==
    \A t \in Tags :
        (Playable(t) /\ taps = <<t, NoTag, t>>) =>
            /\ current_player # NoPlayer
            /\ current_file = to_absolute_path(mappings[t])
            /\ current_playing_tag = t

\* A player whose session on file_path has played to the end of the media.
ended_session(file_path) ==
    [current_player |-> [state |-> "Ended",
                         time |-> Duration(file_path.segs[Len(file_path.segs)]),
                         length |-> Duration(file_path.segs[Len(file_path.segs)]),
                         media |-> file_path],
     is_playing |-> FALSE,
     metadata |-> file_path,
     current_file |-> file_path]

\* C5: a failed play clears the current tag.  After a handle_tag of a mapped
\* tag that returned False (its play() failed), the current tag is None; and
\* handle_tag of the current tag t on a player whose session has ended (the
\* restart-on-ended branch), when it returns False, leaves the current tag
\* None.
C5_FailedPlayClearsTag ==
    /\ (/\ last_op.op = "handle_tag"
        /\ last_op.tag \in DOMAIN mappings
        /\ ~last_op.ok) => current_playing_tag = None
    /\ \A t \in DOMAIN mappings :
           LET h == handle_tag(ended_session(get_mapped_file(Cat, t)), Cat, t, t)
           IN ~h.ret => h.tag = None

\* The maps a database document holds.
saved_files == json_load(mapping_file.files)
saved_mappings == json_load(mapping_file.mappings)

\* C6: mapping round trip.  After add_mapping(t, p) returned True,
\* get_mapped_file(t) is the absolute path of p.  After a cleanup whose forced
\* save succeeded, loading the database file yields the files and mappings in
\* memory.  After a construction on a written database file, every saved
\* mapping whose file is still present resolves to that file's absolute path
\* (the constructor's scan having succeeded), and when the constructor's scan
\* failed the maps in memory are exactly the saved ones.
C6_MappingRoundTrip ==
    /\ (last_op.op = "add_mapping" /\ last_op.ok) =>
           get_mapped_file(Cat, last_op.tag) = AbsoluteOf(last_op.path)
    /\ (last_op.op = "cleanup" /\ last_op.ok) =>
           /\ mapping_file.kind = "doc"
           /\ saved_files = files
           /\ saved_mappings = mappings
    /\ (last_op.op = "restart" /\ mapping_file.kind = "doc") =>
           IF last_op.ok
           THEN \A t \in DOMAIN saved_mappings :
                    OnDisk(saved_mappings[t]) =>
                        get_mapped_file(Cat, t) = Abs(MusicDir \o saved_mappings[t])
           ELSE files = saved_files /\ mappings = saved_mappings

\* C6 witness: a store constructed on a written database file resolves a
\* saved mapping whose file is present.
C6_Witness ==
    /\ last_op.op = "restart"
    /\ last_op.ok
    /\ mapping_file.kind = "doc"
    /\ \E t \in DOMAIN saved_mappings :
           /\ OnDisk(saved_mappings[t])
           /\ get_mapped_file(Cat, t) = Abs(MusicDir \o saved_mappings[t])

C8_ResumeFromCheckpoint ==
    [][last_op'.op = "http_play" =>
       \A filename \in DiskNames :
           (/\ HttpPlayOf(filename)
            /\ validate_filename(filename)
            /\ filename \in disk
            /\ <<filename>> \in DOMAIN files) =>
               /\ last_op'.ok
               /\ is_playing'
               /\ current_player'.state = "Playing"
               /\ current_player'.time = files[<<filename>>].last_position
               /\ current_file' = str(to_absolute_path(<<filename>>))]_vars

\* C9: mapping targets are live.  Every value of mappings is a key of files.
C9_MappingTargetsLive ==
    \A t \in DOMAIN mappings : mappings[t] \in DOMAIN files

\* C9 witness: a scan has purged a saved mapping of a.mp3 after the file
\* vanished, while another mapping is kept.
C9_Witness ==
    /\ last_op.op = "scan_directory"
    /\ last_op.ok
    /\ "a.mp3" \notin disk
    /\ mapping_file.kind = "doc"
    /\ \E t \in DOMAIN saved_mappings :
           saved_mappings[t] = <<"a.mp3">> /\ t \notin DOMAIN mappings
    /\ DOMAIN mappings # {}

\* The non-hidden audio files present in the music root.
audio_files(dsk) ==
    {n \in dsk : ~is_dir(n) /\ suffix_lower(n) \in AUDIO_EXTENSIONS /\ ~startswith_dot(n)}

\* C10: scan postcondition.  After scan_directory returned True, the keys of
\* files are exactly the non-hidden audio files present in the music root,
\* and every value of mappings is a key of files.
C10_ScanPostcondition ==
    (last_op.op = "scan_directory" /\ last_op.ok) =>
        /\ DOMAIN files = {<<n>> : n \in audio_files(disk)}
        /\ \A t \in DOMAIN mappings : mappings[t] \in DOMAIN files

\* C11: remove_mapping.  A remove_mapping(t) with t mapped returns True,
\* deletes t's entry and no other, leaves files as it is, marks the database
\* changed, and get_mapped_file(t) then returns None; with t unmapped it
\* returns False and changes neither mappings nor files.  A tag that is
\* unmapped becomes mapped again only by an add_mapping of that tag that
\* returned True, or in a new store constructed from the database file.
C11_RemoveMapping ==
    [][\A t \in Tags :
           /\ (last_op'.op = "remove_mapping" /\ last_op'.tag = t) =>
                  IF t \in DOMAIN mappings
                  THEN /\ last_op'.ok
                       /\ mappings' = Restrict(mappings, (DOMAIN mappings) \ {t})
                       /\ get_mapped_file(Cat, t)' = NoPath
                       /\ files' = files
                       /\ database_changed'
                  ELSE /\ ~last_op'.ok
                       /\ UNCHANGED <<mappings, files>>
           /\ (t \notin DOMAIN mappings /\ t \in DOMAIN mappings') =>
                  \/ last_op'.op = "add_mapping" /\ last_op'.tag = t /\ last_op'.ok
                  \/ last_op'.op = "restart"]_vars

\* C11 witness: a mapped tag was removed while another mapping stays.
C11_Witness ==
    /\ last_op.op = "remove_mapping"
    /\ last_op.ok
    /\ last_op.tag \notin DOMAIN mappings
    /\ get_mapped_file(Cat, last_op.tag) = NoPath
    /\ DOMAIN mappings # {}

\* C12: a stale mapping resolves to nothing.  get_mapped_file(t) is None for
\* every tag t without an entry in mappings and for every tag whose entry
\* names a file that is not present in the music root.
C12_StaleMappingResolvesToNothing ==
    \A t \in Tags :
        (t \notin DOMAIN mappings \/ ~OnDisk(mappings[t])) =>
            get_mapped_file(Cat, t) = NoPath

\* The database document of an empty store.
EmptyDoc == [kind |-> "doc", files |-> json_dump(EmptyDict), mappings |-> json_dump(EmptyDict)]

\* C13: data-loss-tolerant bootstrap.  A store constructed while the database
\* file is missing, or does not parse, has no mappings, and its files are the
\* fresh records of the initial scan (none when that scan failed): the loaded
\* maps were empty.  When the write of the constructor succeeds the database
\* file is afterwards the document of an empty store, and when it fails the
\* file is as it was.
C13_Bootstrap ==
    [][last_op'.op = "restart" =>
       \A save_ok \in BOOLEAN, scan_ok \in BOOLEAN :
           (RestartOf(save_ok, scan_ok) /\ mapping_file.kind # "doc") =>
               /\ mappings' = EmptyDict
               /\ files' = IF scan_ok
                           THEN [p \in current_files(disk) |-> new_file_record(p[1])]
                           ELSE EmptyDict
               /\ mapping_file' = IF save_ok THEN EmptyDoc ELSE mapping_file]_vars

\* C13 witness: a store constructed on a file that does not parse has left it
\* unwritten once (the write failed) and stands with an empty mappings map.
C13_Witness ==
    /\ last_op.op = "restart"
    /\ mapping_file.kind = "corrupt"
    /\ mappings = EmptyDict
    /\ files # EmptyDict

\* The conditions under which a file name posted to /map is to be rejected:
\* empty, with a path separator, with a leading dot, or longer than 255.
to_be_rejected(filename) ==
    \/ strlen(filename) = 0
    \/ path_name(filename) # filename
    \/ startswith_dot(filename)
    \/ strlen(filename) > 255

\* C14: input validation of POST /map.  With a valid tag id, a file name that
\* is empty, holds a path separator, starts with a dot or is longer than 255
\* characters is rejected and mappings stay as they are; every other file name
\* that names an audio file present in the music root (its record in files,
\* or the rescan succeeding) is accepted and the tag is mapped to it.
C14_MapInputValidation ==
    [][last_op'.op = "http_map" =>
       \A tag_id \in TagIdInputs, filename \in MapFilenames, scan_ok \in BOOLEAN :
           (HttpMapOf(tag_id, filename, scan_ok) /\ validate_tag_id(tag_id)) =>
               IF to_be_rejected(filename)
               THEN ~last_op'.ok /\ mappings' = mappings
               ELSE (/\ filename \in audio_files(disk)
                     /\ (scan_ok \/ <<filename>> \in DOMAIN files)) =>
                        /\ last_op'.ok
                        /\ with_tag_prefix(tag_id) \in DOMAIN mappings'
                        /\ mappings'[with_tag_prefix(tag_id)] = <<filename>>]_vars

\* The location a path resolves to lies outside the music root.
escapes_root(path) == ~IsPrefix(MusicDir, AbsoluteOf(path).segs)

\* C15: path safety.  An add_mapping with a path whose resolved location lies
\* outside the music root returns False and leaves mappings, files and the
\* dirty flag as they were (no scan is run); and every value of mappings
\* resolves to a location inside the music root.
C15_PathSafety ==
    /\ [](\A t \in DOMAIN mappings : ~escapes_root(Rel(mappings[t])))
    /\ [][(last_op'.op = "add_mapping" /\ escapes_root(last_op'.path)) =>
              /\ ~last_op'.ok
              /\ UNCHANGED <<mappings, files, database_changed>>]_vars

\* The position seek_to_position aims at in a session of length d.
clamp(ms, d) == max(0, min(ms, d))

loaded_session(file_path, playing) ==
    [current_player |-> [state |-> IF playing THEN "Playing" ELSE "Paused",
                         time |-> 1000,
                         length |-> Duration(file_path.segs[Len(file_path.segs)]),
                         media |-> file_path],
     is_playing |-> playing,
     metadata |-> file_path,
     current_file |-> file_path]

\* C17: seek-error recovery is transparent.  For every audio file present in
\* the music root and a session loaded on it, Playing or Paused, a
\* seek_to_position whose engine seek fails returns success and leaves a
\* session on the same file at the clamped target in the same play/pause
\* state.
C17_SeekErrorRecovery ==
    \A name \in audio_files(disk), playing \in BOOLEAN,
       ms \in SeekInputs, reseek_ok \in BOOLEAN :
        LET A == loaded_session(to_absolute_path(<<name>>), playing)
            r == seek_to_position(A, ms, FALSE, reseek_ok)
        IN /\ r.ret
           /\ r.A.current_file = A.current_file
           /\ r.A.current_player.media = A.current_file
           /\ r.A.current_player.state = A.current_player.state
           /\ reseek_ok =>
                  r.A.current_player.time = clamp(ms, A.current_player.length)

\* C18: atomic persistence.  Once the database file holds a complete
\* document, every step of a save, and the end of the process between any two
\* steps, leaves it holding a complete document: the previous one or the one
\* a save wrote.
C18_AtomicPersistence ==
    [][mapping_file.kind = "doc" =>
           /\ mapping_file'.kind = "doc"
           /\ (mapping_file' # mapping_file) =>
                  (mapping_file' = saving.temp_file \/ mapping_file' = document)]_vars

\* C19: flush on close.  After a cleanup() that returned without raising, the
\* database file holds the in-memory files and mappings maps, the dirty flag
\* is clear and no deferred-flush timer is pending.
C19_CleanupFlushes ==
    [][last_op'.op = "cleanup" =>
           /\ mapping_file' = document'
           /\ ~database_changed'
           /\ save_database_timer' # "alive"]_vars

\* The order of the teardown: reader thread, HTTP server, audio player,
\* catalog store, downloader.
CleanupOrder ==
    <<"rfid_reader", "api_server", "audio_player", "mapping_manager", "spotify_downloader">>

\* C20: ordered best-effort shutdown.  A teardown runs its five steps in the
\* order reader thread, HTTP server, audio player, catalog flush, downloader,
\* whichever of them fail: the catalog is flushed (the database file holds the
\* maps when the write succeeds) also after the audio player's step raised;
\* and no tag is dispatched once the teardown has begun.
C20_OrderedShutdown ==
    /\ [][last_op'.op = "handle_tag" =>
              (teardown.steps = <<>> /\ teardown'.steps = <<>>)]_vars
    /\ [][last_op'.op = "musicbox_cleanup" =>
              /\ teardown'.steps = CleanupOrder
              /\ \A audio_ok \in BOOLEAN, io_ok \in BOOLEAN, spotify_ok \in BOOLEAN :
                     (MusicBoxCleanupOf(audio_ok, io_ok, spotify_ok) /\ io_ok) =>
                         /\ mapping_file' = document'
                         /\ ~database_changed']_vars

C20_Witness ==
    /\ last_op.op = "musicbox_cleanup"
    /\ "audio_player" \in teardown.cleanup_errors
    /\ teardown.steps = CleanupOrder
    /\ mappings # EmptyDict
    /\ mapping_file = document

\* C21: final checkpoint on shutdown.  In a process whose last dispatches
\* before the shutdown were one tap (play) or two taps (play, then pause) of a
\* tag t mapped to a present file, a track is loaded at the teardown; a
\* teardown whose audio step and catalog flush succeed releases the session
\* and leaves, in the database file it writes, the session's position (0 when
\* near the end) in that track's record.
C21_FinalCheckpoint ==
    [][last_op'.op = "musicbox_cleanup" =>
       \A t \in Tags :
           (Playable(t) /\ taps \in {<<t>>, <<t, t>>}) =>
               \A spotify_ok \in BOOLEAN :
                   MusicBoxCleanupOf(TRUE, TRUE, spotify_ok) =>
                       /\ current_player # NoPlayer
                       /\ current_player' = NoPlayer
                       /\ ~is_playing'
                       /\ mappings[t] \in DOMAIN json_load(mapping_file'.files)
                       /\ json_load(mapping_file'.files)[mappings[t]].last_position =
                              checkpoint_value(current_player.time, current_player.length)]_vars

\* C22: adaptive polling.  The poll interval starts at the slow value and is
\* always the slow or the fast value; a poll that senses a tag records the
\* time and sets the interval to fast; a poll that senses nothing sets it to
\* slow when more than the activity timeout has passed since the last sensed
\* tag and leaves it unchanged otherwise; so, once a tag has been sensed, the
\* interval is fast as long as no more than the activity timeout has passed.
C22_AdaptivePolling ==
    /\ [](/\ poller.current_interval \in {poller.polling_interval, poller.busy_interval}
          /\ (poller.sensed = <<>>) => (poller.current_interval = poller.polling_interval)
          /\ (/\ poller.sensed # <<>>
              /\ poller.now - poller.last_activity <= poller.activity_timeout)
                 => (poller.current_interval = poller.busy_interval))
    /\ [][last_op'.op = "poll" =>
          \A tag_id \in ReaderIds \cup {NoTag} :
              PollOf(tag_id, FALSE) =>
                  IF tag_id # NoTag
                  THEN /\ poller'.last_activity = poller.now
                       /\ poller'.current_interval = poller.busy_interval
                  ELSE /\ poller'.last_activity = poller.last_activity
                       /\ poller'.current_interval =
                              IF poller.now - poller.last_activity > poller.activity_timeout
                              THEN poller.polling_interval
                              ELSE poller.current_interval]_vars

C22_Witness ==
    /\ last_op.op = "poll"
    /\ poller.sensed # <<>>
    /\ poller.now - poller.last_activity > poller.activity_timeout
    /\ poller.current_interval = poller.polling_interval
    /\ poller.polling_interval # poller.busy_interval

\* The nearest value of lo..hi to v.
nearest(lo, hi, v) ==
    IF v < lo THEN lo ELSE IF v > hi THEN hi ELSE v

\* C23: clamped time constants.  The slow interval is within 0.5..5.0 s, the
\* fast interval within 0.1..1.0 s and the activity timeout within
\* 5.0..30.0 s (here in tenths of a second); a configured value inside its
\* range is used unchanged and one outside it is replaced by the nearest
\* bound; the polling loop never sleeps less than 0.1 s.
C23_ClampedConstants ==
    /\ [](/\ poller.polling_interval \in 5..50
          /\ poller.busy_interval \in 1..10
          /\ poller.activity_timeout \in 50..300
          /\ poller.polling_interval = nearest(5, 50, poller.settings.slow_polling)
          /\ poller.busy_interval = nearest(1, 10, poller.settings.fast_polling)
          /\ poller.activity_timeout = nearest(50, 300, poller.settings.transition_polling))
    /\ [][last_op'.op = "poll" => poller'.now - poller.now >= 1]_vars

C23_Witness ==
    /\ last_op.op = "poll"
    /\ poller.settings.fast_polling < 1
    /\ poller.busy_interval = 1
    /\ poller.current_interval = poller.busy_interval
    /\ Len(poller.sensed) = MaxSensed

\* C24: no drop, FIFO delivery.  Every id the reader returns, the QUIT and L
\* sentinels included, is enqueued exactly once and unmodified; the dispatch
\* loop takes the ids in the order they were sensed, at most one per
\* iteration, is never blocked by an empty queue, and, unless shutdown is
\* requested, eventually handles every enqueued id.
C24_FifoDelivery ==
    /\ [](/\ poller.handled \o poller.tag_queue = poller.sensed
          /\ (~teardown.requested) => ENABLED RunLoopTick)
    /\ [][last_op'.op = "poll" =>
          \A tag_id \in ReaderIds :
              PollOf(tag_id, FALSE) =>
                  /\ poller'.tag_queue = Append(poller.tag_queue, tag_id)
                  /\ poller'.handled = poller.handled]_vars
    /\ [][last_op'.op = "handle_tag" =>
          /\ poller'.sensed = poller.sensed
          /\ IF poller.tag_queue = <<>>
             THEN poller'.handled = poller.handled
             ELSE /\ poller'.handled = Append(poller.handled, Head(poller.tag_queue))
                  /\ poller'.tag_queue = Tail(poller.tag_queue)
                  /\ last_op'.tag = Head(poller.tag_queue)]_vars
    /\ \A n \in 1..(MaxSensed + 1) :
           (Len(poller.sensed) >= n) ~> (Len(poller.handled) >= n \/ teardown.requested)

C24_Witness ==
    /\ last_op.op = "handle_tag"
    /\ poller.sensed = <<"L", "TAG_1">>
    /\ poller.handled = poller.sensed
    /\ poller.tag_queue = <<>>
    /\ ~teardown.requested

\* C25: catalog mutual exclusion.  Catalog operations called concurrently
\* take effect as if run one at a time: a mapping that add_mapping stored for
\* a file the scan keeps is still there when a concurrent scan_directory has
\* stored its result, and, once no operation is under way, no mapping points
\* at a path absent from files.
C25_CatalogMutualExclusion ==
    /\ [](in_flight = NoInFlight =>
              \A t \in DOMAIN mappings : mappings[t] \in DOMAIN files)
    /\ [][last_op'.op = "scan_store" =>
              \A t \in DOMAIN mappings :
                  mappings[t] \in DOMAIN files =>
                      /\ t \in DOMAIN mappings'
                      /\ mappings'[t] = mappings[t]]_vars

\* C26: playback serialization.  A play issued by an HTTP handler for a file
\* it admits and an iteration of the dispatch loop that runs before that play
\* has returned do not overlap in effect: when the play returns it reports
\* success and exactly one session is live, Playing or Paused, on the file of
\* the play or on the file of a mapped tag, as after one of the two
\* sequential orders.
C26_PlaybackSerialization ==
    [][(/\ last_op'.op = "play_return"
        /\ in_flight.play_pc = "released"
        /\ last_op.op = "handle_tag") =>
           /\ last_op'.ok
           /\ current_player' # NoPlayer
           /\ current_player'.state \in {"Playing", "Paused"}
           /\ current_player'.media \in
                  {in_flight.file_path} \cup
                  {str(to_absolute_path(mappings[t])) : t \in DOMAIN mappings}]_vars

\* C27: pause/resume outcome at the HTTP surface.  For a session loaded on a
\* present audio file, a pause request on the Playing session answers ok
\* exactly when the session became Paused, and a resume request on the Paused
\* session answers ok exactly when it became Playing; an error is answered
\* only when the playback state did not change.
C27_PauseResumeOutcome ==
    \A name \in audio_files(disk) :
        LET playing == loaded_session(to_absolute_path(<<name>>), TRUE)
            paused == loaded_session(to_absolute_path(<<name>>), FALSE)
            rp == pause_playback(playing, Cat)
            rr == resume_playback(paused, Cat)
        IN /\ (rp.status = "success") <=> (rp.A.current_player.state = "Paused")
           /\ (rr.status = "success") <=> (rr.A.current_player.state = "Playing")
           /\ (rp.status = "error") =>
                  (rp.A.current_player.state = playing.current_player.state)
           /\ (rr.status = "error") =>
                  (rr.A.current_player.state = paused.current_player.state)

\* C28: status snapshot.  For a session loaded on a present audio file,
\* get_status() reports the metadata of that track while the session is
\* Playing or Paused, with the playing flag true exactly when it is Playing;
\* after stop() the session is Stopped and get_status() reports empty
\* metadata and a false playing flag.
C28_StatusSnapshot ==
    \A name \in audio_files(disk), playing \in BOOLEAN :
        LET file_path == to_absolute_path(<<name>>)
            A == loaded_session(file_path, playing)
            loaded == get_status(A).status
            stopped == stop(A, Cat).A
            after == get_status(stopped).status
        IN /\ loaded.metadata = file_path
           /\ loaded.is_playing = (A.current_player.state = "Playing")
           /\ stopped.current_player.state = "Stopped"
           /\ after.metadata = NoPath
           /\ ~after.is_playing

\* C29: every mutation reaches disk.  A successful mutation is written to the
\* database file by a deferred flush without a further mutation or an
\* explicit flush; in particular, when a deferred flush returns success and
\* leaves the dirty flag clear with no flush pending, the database file holds
\* the maps as they are, mutations made while the flush was executing
\* included.
C29_EveryMutationReachesDisk ==
    [][(/\ last_op'.op = "save_database_to_disk"
        /\ last_op'.ok
        /\ ~database_changed'
        /\ save_database_timer' # "alive"
        /\ saving'.pc = NoSaving.pc) =>
           mapping_file' = [kind |-> "doc",
                            files |-> json_dump(files'),
                            mappings |-> json_dump(mappings')]]_vars

\* C30: debounced flush.  update_position never writes the database file;
\* for a known file it sets the dirty flag and starts a deferred flush only
\* if none is pending, so at most one deferred flush timer is pending at any
\* time; and a non-forced flush of a clean store writes nothing.
C30_DebouncedFlush ==
    /\ [](/\ pending_timers \in {0, 1}
          /\ (pending_timers = 1) <=> (save_database_timer = "alive")
          /\ (~database_changed) =>
                 \A io_ok \in BOOLEAN :
                     save_database_to_disk(Cat, FALSE, io_ok).C.mapping_file = mapping_file)
    /\ [][last_op'.op = "update_position" =>
          \A file_path \in PositionPathInputs, position_ms \in Positions :
              UpdatePositionOf(file_path, position_ms) =>
                  LET r == to_relative_path(file_path)
                  IN /\ mapping_file' = mapping_file
                     /\ IF r.ok /\ r.rel \in DOMAIN files
                        THEN /\ files'[r.rel].last_position = position_ms
                             /\ database_changed'
                             /\ save_database_timer' = "alive"
                             /\ pending_timers' = IF save_database_timer = "alive"
                                                  THEN pending_timers
                                                  ELSE pending_timers + 1
                        ELSE UNCHANGED catalog_vars]_vars

C30_Witness ==
    /\ last_op.op = "update_position"
    /\ database_changed
    /\ save_database_timer = "alive"
    /\ pending_timers = 1
    /\ mapping_file.kind = "doc"
    /\ <<"a.mp3">> \in DOMAIN files
    /\ <<"a.mp3">> \in DOMAIN json_load(mapping_file.files)
    /\ files[<<"a.mp3">>].last_position # json_load(mapping_file.files)[<<"a.mp3">>].last_position

\* C31: stop.  For a session loaded on a catalogued audio file, Playing or
\* Paused, stop() checkpoints the current position, releases the engine
\* handle and leaves the player Stopped with no current track; after it seeks
\* and skips return failure, has_ended is false, and resume() drives no
\* engine handle.
C31_StopReleases ==
    \A name \in audio_files(disk), playing \in BOOLEAN :
        (<<name>> \in DOMAIN files) =>
            LET file_path == to_absolute_path(<<name>>)
                A == loaded_session(file_path, playing)
                r == stop(A, Cat)
            IN /\ r.C.files[<<name>>].last_position =
                      checkpoint_value(A.current_player.time, A.current_player.length)
               /\ r.A.current_file = NoPath
               /\ ~r.A.is_playing
               /\ ~has_ended(r.A)
               /\ \A ms \in SeekInputs, seek_ok \in BOOLEAN :
                      ~seek_to_position(r.A, ms, seek_ok, TRUE).ret
               /\ \A a \in SkipInputs, seek_ok \in BOOLEAN :
                      /\ ~skip_forward(r.A, a, seek_ok, TRUE).ret
                      /\ ~skip_backward(r.A, a, seek_ok, TRUE).ret
               /\ r.A.current_player = NoPlayer
               /\ resume(r.A) = r.A

\* C32: resume() changes state only from Paused to Playing.  On a player
\* that never played it does nothing; after stop() of a loaded session it
\* starts no playback and the session stays Stopped; on a Playing session it
\* leaves the session Playing at the same position; on a Paused session it
\* makes it Playing.
C32_ResumeOnlyFromPaused ==
    /\ (current_player = NoPlayer) => (resume(Aud) = Aud)
    /\ \A name \in audio_files(disk) :
           LET file_path == to_absolute_path(<<name>>)
               playing == loaded_session(file_path, TRUE)
               paused == loaded_session(file_path, FALSE)
               stopped == stop(playing, Cat).A
           IN /\ resume(playing).current_player = playing.current_player
              /\ resume(playing).is_playing
              /\ resume(paused).current_player.state = "Playing"
              /\ resume(paused).current_player.time = paused.current_player.time
              /\ resume(stopped).current_player.state # "Playing"
              /\ ~resume(stopped).is_playing

\* C33: a failing play keeps the session.  For a session loaded on an audio
\* file, Playing or Paused, a play(path) of an audio file on disk that returns
\* False leaves the loaded track, its engine session and the playback state
\* exactly as they were before the call.
C33_FailedPlayKeepsSession ==
    \A name \in audio_files(disk), other \in audio_files(disk), playing \in BOOLEAN :
        LET A == loaded_session(str(to_absolute_path(<<name>>)), playing)
            p == play(A, Cat, str(to_absolute_path(<<other>>)))
        IN ~p.ret => p.A = A

\* Scans of a catalog in use: tags are mapped and positions are saved while
\* files come and go, and the tree is scanned at any moment.
NextScan ==
    \/ ScanDirectory
    \/ AddMapping
    \/ UpdatePosition
    \/ FileAppears
    \/ FileDisappears

SpecScan == Init /\ [][NextScan]_vars

\* C34: scan_directory is idempotent and keeps what is still on disk.  Every
\* successful scan leaves the last_position of each record whose file is still
\* on disk, and each mapping whose target is still on disk, unchanged; a
\* successful scan that directly follows a successful scan, with the disk
\* unchanged in between, leaves files and mappings as the first left them.
C34_ScanIdempotent ==
    [][(last_op'.op = "scan_directory" /\ last_op'.ok) =>
          /\ \A p \in DOMAIN files \cap current_files(disk) :
                 /\ p \in DOMAIN files'
                 /\ files'[p].last_position = files[p].last_position
          /\ \A t \in DOMAIN mappings :
                 (mappings[t] \in current_files(disk)) =>
                     /\ t \in DOMAIN mappings'
                     /\ mappings'[t] = mappings[t]
          /\ LET again == scan_directory(Cat', disk', TRUE).C
             IN /\ again.files = files'
                /\ again.mappings = mappings'
          /\ (last_op.op = "scan_directory" /\ last_op.ok) =>
                 (files' = files /\ mappings' = mappings)]_vars

\* A successful scan has run on a catalog that holds a saved position and a
\* mapping, both of a file still on disk.
C34_Witness ==
    /\ last_op.op = "scan_directory"
    /\ last_op.ok
    /\ \E p \in DOMAIN files : files[p].last_position > 0
    /\ \E t \in DOMAIN mappings : mappings[t] \in current_files(disk)

Stats == {[size |-> 10, modified |-> 1], [size |-> 20, modified |-> 1],
          [size |-> 10, modified |-> 2]}

\* MappingManager._extract_metadata: the fields read from the file system.
extract_metadata(name, st) ==
    [filename |-> name, size |-> st.size, modified |-> st.modified]

\* The records scan_directory leaves, with their metadata: fs are the records
\* before the scan, st is the stat() of each file found by the walk.
scan_records(fs, st) ==
    LET kept == Restrict(fs, DOMAIN st)
    IN [p \in DOMAIN st |->
           IF p \in DOMAIN kept
           THEN kept[p]
           ELSE [metadata |-> extract_metadata(p[1], st[p]), last_position |-> 0]]

\* C36: rescan refreshes changed files.  For every catalogued file still on
\* disk whose size or modification time differs from the ones in its record,
\* the scan leaves a record with the current size and modification time and
\* the last_position it had, and keeps the mappings to the file.
C36_RescanRefreshesMetadata ==
    \A p \in DOMAIN files \cap current_files(disk), old \in Stats, new \in Stats :
        (old # new) =>
            LET rec == [metadata |-> extract_metadata(p[1], old),
                        last_position |-> files[p].last_position]
                after == scan_records([q \in {p} |-> rec], [q \in {p} |-> new])
                C == scan_directory(Cat, disk, TRUE).C
            IN /\ after[p].last_position = rec.last_position
               /\ \A t \in DOMAIN mappings :
                      (mappings[t] = p) => (t \in DOMAIN C.mappings /\ C.mappings[t] = p)
               /\ after[p].metadata.size = new.size
               /\ after[p].metadata.modified = new.modified

\* get_songs: the tag id as sent to API clients, without the TAG_ prefix.
without_tag_prefix(tag_id) ==
    CASE tag_id = "TAG_1" -> "1"
      [] tag_id = "TAG_2" -> "2"
      [] OTHER -> tag_id

\* GET /songs after its scan: fs are the stored records with their metadata,
\* ms the mappings.  The loop takes each record's metadata dict, the stored
\* object itself, and updates it with mapped_to.  Returns the stored records
\* and the songs of the response.
get_songs(fs, ms) ==
    LET tag_of(p) ==
            IF \E t \in DOMAIN ms : ms[t] = p
            THEN without_tag_prefix(CHOOSE t \in DOMAIN ms : ms[t] = p)
            ELSE None
        song(p) == [filename |-> fs[p].metadata.filename,
                    size |-> fs[p].metadata.size,
                    modified |-> fs[p].metadata.modified,
                    mapped_to |-> tag_of(p)]
    IN [files |-> [p \in DOMAIN fs |-> [fs[p] EXCEPT !.metadata = song(p)]],
        mappings |-> ms,
        songs |-> {song(p) : p \in DOMAIN fs}]

\* C38: listing tracks is read-only on records.  With the records and the
\* mappings its scan leaves, get_songs leaves every stored record and every
\* mapping as it was, so the records written by the next save have the
\* fields they had before the listing.
C38_ListingReadOnly ==
    \A st \in Stats :
        LET C == scan_directory(Cat, disk, TRUE).C
            fs == [p \in DOMAIN C.files |->
                      [metadata |-> extract_metadata(p[1], st),
                       last_position |-> C.files[p].last_position]]
            r == get_songs(fs, C.mappings)
        IN /\ r.mappings = C.mappings
           /\ DOMAIN r.files = DOMAIN fs
           /\ \A p \in DOMAIN fs : r.files[p].last_position = fs[p].last_position
           /\ \A p \in DOMAIN fs : r.files[p].metadata = fs[p].metadata

\* C37: current-tag consistency.  A tap of a tag t mapped to a present file
\* loads t's file and makes t the current tag.  With t current and its file
\* loaded, a POST /play of another file leaves no loaded track other than
\* t's while t stays current, whether the engine instance of that play is
\* created or not; and after t is mapped to another file the loaded track is
\* still the one t's tap loaded, so a tap of t, the track not having ended,
\* pauses that track; and after
\* t's mapping is removed a tap of t changes nothing.
C37_CurrentTagConsistency ==
    \A t \in Tags :
        Playable(t) =>
            LET f == get_mapped_file(Cat, t)
                A == loaded_session(f, TRUE)
            IN /\ (taps = <<t>>) =>
                      /\ current_playing_tag = t
                      /\ current_player # NoPlayer
                      /\ current_file = f
               /\ \A other \in audio_files(disk) :
                      LET g == str(to_absolute_path(<<other>>))
                          p == play(A, Cat, g)
                          q == play_with_instance(
                                   [A EXCEPT !.current_player = NoPlayer], Cat, g)
                      IN (g.segs # f.segs) =>
                             /\ (p.A.current_player # NoPlayer) =>
                                    p.A.current_player.media.segs = f.segs
                             /\ (q.A.current_player # NoPlayer) =>
                                    q.A.current_player.media.segs = f.segs
               /\ \A rel \in DOMAIN files :
                      LET C == add_mapping(Cat, disk, t, str(Rel(rel)), TRUE).C
                          h == handle_tag(A, C, t, t)
                      IN ~has_ended(A) =>
                             /\ h.tag = t
                             /\ h.A.current_player.media = f
                             /\ h.A.current_player.state = "Paused"
               /\ LET C == remove_mapping(Cat, t).C
                      h == handle_tag(A, C, t, t)
                  IN h.A = A /\ h.tag = t /\ ~h.ret

\* C39: concurrent saves are safe.  Whatever way the steps of the timer's
\* save and of cleanup()'s save interleave on the shared temporary file, a
\* save that returns True after its replace leaves a complete document as the
\* database file: it reports success only for a document it installed.
C39_ConcurrentSavesSafe ==
    [][(/\ last_op'.op = "save_database_to_disk"
        /\ last_op'.tag \in Savers
        /\ saving.pc[last_op'.tag] = "closed"
        /\ last_op'.ok) => mapping_file'.kind = "doc"]_vars

\* ------------------------------------------------------- download worker

\* SpotifyDownloader._validate_spotify_url on the URLs of UrlInputs.
validate_spotify_url(url) == url \in Urls

downloader_frame ==
    UNCHANGED <<disk, catalog_vars, player_vars, current_playing_tag, track_end_logged,
                taps, saving, teardown, poller, in_flight>>

\* add_track up to the put: the URL is validated and _running is tested.  A
\* URL is posted once.
AddTrackCheck ==
    \E a \in Adders, url \in UrlInputs :
        /\ downloader.adding[a] = None
        /\ \A i \in 1..Len(downloader.accepted) : downloader.accepted[i] # url
        /\ \A b \in Adders : downloader.adding[b] # url
        /\ IF validate_spotify_url(url) /\ downloader.running
           THEN /\ downloader' = [downloader EXCEPT !.adding[a] = url]
                /\ last_op' = Op("add_track_check", a, NoPath, TRUE)
           ELSE /\ last_op' = Op("add_track", a, NoPath, FALSE)
                /\ UNCHANGED downloader
        /\ downloader_frame

\* add_track from the put on: the URL goes to the queue and True is returned.
AddTrackPut ==
    \E a \in Adders :
        /\ downloader.adding[a] # None
        /\ downloader' = [downloader EXCEPT
                             !.download_queue = Append(@, downloader.adding[a]),
                             !.accepted = Append(@, downloader.adding[a]),
                             !.adding[a] = None]
        /\ last_op' = Op("add_track", a, NoPath, TRUE)
        /\ downloader_frame

\* The worker at the test of its loop: it goes on while _running is set or the
\* queue holds a URL, takes the next URL when there is one (an empty queue
\* sends it back to the test after a second), and exits otherwise.
WorkerLoop ==
    /\ downloader.worker = "loop"
    /\ IF downloader.download_queue # <<>>
       THEN /\ downloader' = [downloader EXCEPT
                                 !.worker = "holding",
                                 !.current_download = Head(downloader.download_queue),
                                 !.download_queue = Tail(@)]
            /\ last_op' = Op("worker_get", None, NoPath, TRUE)
       ELSE IF downloader.running
            THEN /\ last_op' = Op("worker_get", None, NoPath, FALSE)
                 /\ UNCHANGED downloader
            ELSE /\ downloader' = [downloader EXCEPT !.worker = "exited"]
                 /\ last_op' = Op("worker_exit", None, NoPath, TRUE)
    /\ downloader_frame

\* The worker runs spotdl on the URL it holds; ok = FALSE: the download
\* failed or timed out.  Either way the URL is done with.
WorkerDownload ==
    \E ok \in BOOLEAN :
        /\ downloader.worker = "holding"
        /\ downloader' = [downloader EXCEPT
                             !.worker = "loop",
                             !.processed = Append(@, downloader.current_download),
                             !.current_download = None]
        /\ last_op' = Op("worker_download", None, NoPath, ok)
        /\ downloader_frame

\* stop(timeout): _running is cleared and the caller joins the worker.
StopClear ==
    /\ downloader.stop = "idle"
    /\ downloader' = [downloader EXCEPT !.running = FALSE, !.stop = "joining"]
    /\ last_op' = Op("stop_clear", None, NoPath, TRUE)
    /\ downloader_frame

\* The join returns because the worker has exited: stop() returns True.
StopJoined ==
    /\ downloader.stop = "joining"
    /\ downloader.worker = "exited"
    /\ downloader' = [downloader EXCEPT !.stop = "clean"]
    /\ last_op' = Op("stop", None, NoPath, TRUE)
    /\ downloader_frame

\* The join times out while the worker is alive: stop() returns False.
StopTimedOut ==
    /\ downloader.stop = "joining"
    /\ downloader.worker # "exited"
    /\ downloader' = [downloader EXCEPT !.stop = "timed_out"]
    /\ last_op' = Op("stop", None, NoPath, FALSE)
    /\ downloader_frame

\* The downloader with its worker thread, the HTTP handlers that call
\* add_track and the shutdown path that calls stop(), statement by statement.
NextDownloader ==
    \/ AddTrackCheck
    \/ AddTrackPut
    \/ WorkerLoop
    \/ WorkerDownload
    \/ StopClear
    \/ StopJoined
    \/ StopTimedOut

SpecDownloader == Init /\ [][NextDownloader]_vars

\* The worker thread and the threads inside add_track keep running: the
\* worker's get returns within a second, a download ends at its timeout, and
\* a put on a queue that is not full does not block.
SpecDownloaderFair ==
    /\ SpecDownloader
    /\ WF_vars(AddTrackPut)
    /\ WF_vars(WorkerLoop)
    /\ WF_vars(WorkerDownload)

\* The number of times url occurs in the sequence seq.
occurrences(seq, url) == Cardinality({i \in 1..Len(seq) : seq[i] = url})

\* C40: the download worker drains what it accepted.  Every URL for which
\* add_track returned True is eventually processed by the worker, and no URL
\* is processed more often than it was accepted; once stop() has returned
\* True the queue is empty and the worker has exited; and an add_track that
\* returns after stop() returned True returns False.
C40_WorkerDrainsAccepted ==
    /\ \A url \in Urls :
           (occurrences(downloader.accepted, url) > 0)
               ~> (occurrences(downloader.processed, url) > 0)
    /\ [](\A url \in Urls : occurrences(downloader.processed, url)
                                <= occurrences(downloader.accepted, url))
    /\ [](downloader.stop = "clean" =>
              /\ downloader.download_queue = <<>>
              /\ downloader.worker = "exited")
    /\ [][(downloader.stop = "clean" /\ last_op'.op = "add_track") =>
              ~last_op'.ok]_vars

====
